---------------------------- MODULE Spec2Model ----------------------------
(***************************************************************************)
(* A model of koishi-plugin-apexrankwatch (src/src/index.ts): the          *)
(* subscription registry, the add / remove / list / query commands and the *)
(* periodic reconciliation pass, as they interleave on the single          *)
(* JavaScript event loop.  One action is one run of a handler from the     *)
(* point where it is resumed to its next `await` (or to its return).       *)
(***************************************************************************)
EXTENDS Integers, Sequences, FiniteSets, TLC

(***************************************************************************)
(* Bounds of the model and configuration of the plugin.                    *)
(***************************************************************************)
\* Scores the stats API may report are 0..MaxScore.
MaxScore == 3
\* config.minValidScore (the schema's default).
minValidScore == 1
\* config.maxScoreDropThreshold, scaled from the default 2000 to the score range.
maxScoreDropThreshold == 1

\* Guild ids are numeric strings: for-in enumerates them in ascending order.
Groups == {"1001", "1002"}
GroupOrder == <<"1001", "1002">>

\* Player names as users type them, as sequences of characters.
NameMo == <<"M", "o">>
Namemo == <<"m", "o">>
Nameax == <<"a", "x">>
NameAX == <<"A", "X">>
NameConstructor == <<"c", "o", "n", "s", "t", "r", "u", "c", "t", "o", "r">>
Names == {NameMo, Namemo, Nameax, NameAX, NameConstructor}

\* config.blacklist: " AX,z".
Blacklist == <<" ", "A", "X", ",", "z">>

\* The commands users issue: <<group the command is issued in, player name>>.
\* Group 1001 tracks what an earlier run left it; group 1002 is the one players
\* are added to.
AddRequests ==
  { <<"1001", Nameax>>, <<"1001", NameAX>>,
    <<"1002", NameMo>>, <<"1002", Namemo>>, <<"1002", NameConstructor>> }
RemoveRequests ==
  { <<"1001", NameMo>>, <<"1001", Nameax>>, <<"1001", NameAX>>,
    <<"1002", NameMo>>, <<"1002", NameConstructor>> }

\* The reconciliation passes and the command invocations that can be in flight.
PassOrder == <<"p1", "p2">>
PassIds == {PassOrder[i] : i \in DOMAIN PassOrder}
CmdIds == {"c1", "c2"}
\* The runs a specification with one pass and one command at a time uses.
OnePass == {"p1"}
OneCmd == {"c1"}

\* An absent property, a collected object, and the states of groups.json that
\* hold no document.
Undefined == [defined |-> FALSE]
Free == [free |-> TRUE]
Missing == [kind |-> "missing"]
Corrupt == [kind |-> "corrupt"]

(***************************************************************************)
(* String helpers of the JavaScript runtime, on sequences of characters.   *)
(***************************************************************************)
LowerChar(c) ==
  CASE c = "A" -> "a"
    [] c = "I" -> "i"
    [] c = "L" -> "l"
    [] c = "M" -> "m"
    [] c = "O" -> "o"
    [] c = "X" -> "x"
    [] c = "Z" -> "z"
    [] OTHER -> c

toLowerCase(s) == [i \in DOMAIN s |-> LowerChar(s[i])]

RECURSIVE trimStart(_)
trimStart(s) == IF s # <<>> /\ Head(s) = " " THEN trimStart(Tail(s)) ELSE s

RECURSIVE trimEnd(_)
trimEnd(s) ==
  IF s # <<>> /\ s[Len(s)] = " " THEN trimEnd(SubSeq(s, 1, Len(s) - 1)) ELSE s

trim(s) == trimEnd(trimStart(s))

\* s.split(','): the pieces between the commas, empty pieces included.
RECURSIVE splitFrom(_, _, _)
splitFrom(s, i, cur) ==
  IF i > Len(s) THEN <<cur>>
  ELSE IF s[i] = "," THEN <<cur>> \o splitFrom(s, i + 1, <<>>)
  ELSE splitFrom(s, i + 1, Append(cur, s[i]))

split(s) == splitFrom(s, 1, <<>>)

includes(arr, x) == \E i \in DOMAIN arr : arr[i] = x

\* Variants of isBlacklisted: one that does not lowercase the list, one that
\* does not lowercase the name.
isBlacklistedListAsWritten(playerName, bl) ==
  IF bl = <<>> \/ trim(bl) = <<>> THEN FALSE
  ELSE LET parts == split(bl)
           blacklistArray == [i \in DOMAIN parts |-> trim(parts[i])]
       IN includes(blacklistArray, toLowerCase(playerName))

isBlacklistedNameAsTyped(playerName, bl) ==
  IF bl = <<>> \/ trim(bl) = <<>> THEN FALSE
  ELSE LET parts == split(toLowerCase(bl))
           blacklistArray == [i \in DOMAIN parts |-> trim(parts[i])]
       IN includes(blacklistArray, playerName)

\* isBlacklisted(playerName, blacklist)
isBlacklisted(playerName, bl) ==
  IF bl = <<>> \/ trim(bl) = <<>> THEN FALSE
  ELSE LET parts == split(toLowerCase(bl))
           blacklistArray == [i \in DOMAIN parts |-> trim(parts[i])]
       IN includes(blacklistArray, toLowerCase(playerName))

(***************************************************************************)
(* What getPlayerStats resolves to: the normalised observation.  The        *)
(* translated (Chinese) strings of nameMap are written "zh-<English key>". *)
(***************************************************************************)
Scores == 0..MaxScore

RankNameOf(s) == IF s = 0 THEN "zh-Unranked" ELSE IF s < 3 THEN "zh-Bronze" ELSE "zh-Silver"
RankDivOf(s) == IF s = 0 THEN 0 ELSE 4 - (s % 3)

OfflineStats(s) ==
  [rankScore |-> s, rankName |-> RankNameOf(s), rankDiv |-> RankDivOf(s),
   globalRankPercent |-> "zh-unknown", isOnline |-> "zh-offline", selectedLegend |-> "",
   legendRank |-> "zh-unknown", currentState |-> <<"zh-offline">>]

OnlineStats(s) ==
  [rankScore |-> s, rankName |-> RankNameOf(s), rankDiv |-> RankDivOf(s),
   globalRankPercent |-> "1.5", isOnline |-> "zh-online", selectedLegend |-> "zh-Wraith",
   legendRank |-> "S", currentState |-> <<"zh-In match">>]

\* The observations a fetch may resolve to.
PlayerStats == {OfflineStats(s) : s \in Scores}

(***************************************************************************)
(* getPlayerStats, from what the API answers: realtime.isOnline,           *)
(* realtime.currentStateAsText and realtime.selectedLegend.                *)
(***************************************************************************)
RawInMatch == <<"i", "n", " ", "M", "a", "t", "c", "h">>
RawInLobby == <<"I", "n", " ", "l", "o", "b", "b", "y">>
RawOnline == <<"O", "n", "l", "i", "n", "e">>
RawOffline == <<"o", "f", "f", "l", "i", "n", "e">>
RawStates == {RawInMatch, RawInLobby, RawOnline, RawOffline}

\* nameMap[name] || name, for the states the API reports.  A state text is a
\* sequence of characters; a translation is written as one character.
translate(name) ==
  CASE name = RawInMatch -> <<"zh-in Match">>
    [] name = RawInLobby -> <<"zh-In lobby">>
    [] name = RawOnline -> <<"zh-Online">>
    [] name = RawOffline -> <<"zh-offline">>
    [] OTHER -> name

\* text.toLowerCase().includes(pattern.toLowerCase())
containsPattern(text, pattern) ==
  LET t == toLowerCase(text)
      q == toLowerCase(pattern)
  IN \E i \in 1..(Len(t) - Len(q) + 1) : SubSeq(t, i, i + Len(q) - 1) = q

PatternLobby == <<"l", "o", "b", "b", "y">>
PatternMatch == <<"m", "a", "t", "c", "h">>

\* String.prototype.match with a regular expression that has no g flag: no
\* match, or the leftmost match from index to before end, with its group.
NoMatch == [matched |-> FALSE]

DigitChars == {"0", "1", "2", "3", "4", "5", "6", "7", "8", "9"}

\* The assertion $ of a regular expression without the m flag: position i is
\* the end of the input.
AtEnd(text, i) == i = Len(text) + 1

\* const matchTimeRegex = /$(\d+:\d+)$$/, matched against text: $ at the start
\* i of the group, one or more digits up to the colon at c, one or more digits up
\* to before j, then $ twice at j.
matchTimeRegex(text) ==
  LET n == Len(text)
      starts == {i \in 1..(n + 1) : AtEnd(text, i)}
      found == {m \in starts \X (1..n) \X (1..(n + 1)) :
                  /\ m[1] < m[2] /\ m[2] + 1 < m[3]
                  /\ \A x \in m[1]..(m[2] - 1) : text[x] \in DigitChars
                  /\ text[m[2]] = ":"
                  /\ \A x \in (m[2] + 1)..(m[3] - 1) : text[x] \in DigitChars
                  /\ AtEnd(text, m[3]) /\ AtEnd(text, m[3])}
  IN IF found = {} THEN NoMatch
     ELSE LET m == CHOOSE m \in found : \A o \in found : m[1] <= o[1]
          IN [matched |-> TRUE, index |-> m[1], end |-> m[3],
              group1 |-> SubSeq(text, m[1], m[3] - 1)]

\* The state text of getPlayerStats (654-672): the time is taken out of the
\* state when matchTimeRegex matches, the rest is translated and the time is
\* put back behind the translation.
stateOf(currentStateAsText) ==
  LET matchTime == matchTimeRegex(currentStateAsText)
      timeInfo == IF matchTime.matched
                  THEN <<" ", "(">> \o matchTime.group1 \o <<")">>
                  ELSE <<>>
      currentState == IF matchTime.matched
                      THEN trim(SubSeq(currentStateAsText, 1, matchTime.index - 1)
                                \o SubSeq(currentStateAsText, matchTime.end,
                                          Len(currentStateAsText)))
                      ELSE currentStateAsText
      translatedState == IF timeInfo # <<>>
                         THEN translate(currentState) \o timeInfo
                         ELSE translate(currentState)
  IN [currentState |-> currentState, timeInfo |-> timeInfo,
      translatedState |-> translatedState]

\* What getPlayerStats resolves to for rank score s, realtime.isOnline and
\* realtime.currentStateAsText; the selected legend is reported online or not.
playerDataOf(s, isOnline, currentState) ==
  [rankScore |-> s, rankName |-> RankNameOf(s), rankDiv |-> RankDivOf(s),
   globalRankPercent |-> "1.5",
   isOnline |-> IF isOnline = 1 THEN "zh-online" ELSE "zh-offline",
   selectedLegend |-> "zh-Wraith", legendRank |-> "S",
   currentState |-> stateOf(currentState).translatedState,
   isInLobbyOrMatch |-> containsPattern(stateOf(currentState).currentState, PatternLobby)
                        \/ containsPattern(stateOf(currentState).currentState, PatternMatch)]

VARIABLES
  blacklist,            \* config.blacklist
  now,                  \* what Date.now() returns
  groupSubscriptions,   \* the registry: group id -> GroupSubscription object
  heap,                 \* the PlayerData objects, by reference
  dataFile,             \* the content of groups.json
  passes,               \* the runs of the setInterval callback
  cmds,                 \* the command invocations suspended at an await
  ev,                   \* what the last handler run did and returned
  req,                  \* a call of apiRequestWithRetry, followed attempt by attempt
  snd                   \* a call of sendGroupMessage, followed bot by bot

vars == <<blacklist, now, groupSubscriptions, heap, dataFile, passes, cmds, ev, req, snd>>

(***************************************************************************)
(* Objects and references.                                                 *)
(***************************************************************************)
Keys == {toLowerCase(n) : n \in Names}
PlayerRefs == 1..(Cardinality(Groups) * Cardinality(Keys) + Cardinality(PassIds))

\* What a handler run did: the command or callback, the text it returned or the
\* branch it logged, and whether it called saveGroupData (and how the write went).
Event(op, res, saved) == [op |-> op, res |-> res, saved |-> saved]
\* No handler is running: the event loop picks the next timer, message or promise.
Idle == Event("", "", "none")

\* players: the keys of a `players` object in insertion order, each with the
\* reference it holds.
hasKey(players, k) == \E i \in DOMAIN players : players[i].key = k
getRef(players, k) == players[CHOOSE i \in DOMAIN players : players[i].key = k].ref
keysOf(players) == [i \in DOMAIN players |-> players[i].key]
\* `players` is created by the literal {} or by JSON.parse: it inherits the
\* properties of Object.prototype, of which a lowercased name can spell
\* "constructor" (and "__proto__").
ObjectPrototype == {NameConstructor}

\* players[k] read as a condition: the own property, a PlayerData object, or the
\* inherited one, a function: both are truthy.
isTruthy(players, k) == hasKey(players, k) \/ k \in ObjectPrototype

\* A variant that deletes nothing.
deleteKeyKept(players, k) == players
\* A variant that empties the group.
deleteKeyAndOthers(players, k) == <<>>
deleteKey(players, k) == SelectSeq(players, LAMBDA e : e.key # k)

\* No call of the function is being followed.
NoCall == [pc |-> "none"]

IdlePass == [pc |-> "idle"]
IdleCmd == [pc |-> "idle"]

GroupIndex(g) == CHOOSE n \in DOMAIN GroupOrder : GroupOrder[n] = g

\* The references the registry holds, in the order of groups and of insertion.
RECURSIVE registryRefs(_, _)
registryRefs(subs, n) ==
  IF n = 0 THEN <<>>
  ELSE registryRefs(subs, n - 1) \o
       (IF subs[GroupOrder[n]] = Undefined THEN <<>>
        ELSE [i \in DOMAIN subs[GroupOrder[n]].players |-> subs[GroupOrder[n]].players[i].ref])

\* The references only passes hold (the objects deleted from the registry while a
\* pass was using them), in the order of the passes.
RECURSIVE orphanRefs(_, _, _)
orphanRefs(ps, known, n) ==
  IF n > Len(PassOrder) THEN <<>>
  ELSE LET p == PassOrder[n]
       IN IF ps[p].pc # "idle" /\ ~includes(known, ps[p].player)
          THEN <<ps[p].player>> \o orphanRefs(ps, Append(known, ps[p].player), n + 1)
          ELSE orphanRefs(ps, known, n + 1)

\* Garbage collection: the objects no reference reaches are freed and the others
\* renumbered, registry first.  A group object is numbered by its group; a deleted
\* group object, which only a pass can still hold and whose players are gone,
\* is object 0, and none of its keys is left to visit.  What references what is
\* unchanged.
Compact(subs, h, ps) ==
  LET live == registryRefs(subs, Len(GroupOrder))
      all == live \o orphanRefs(ps, live, 1)
      newRef(r) == CHOOSE n \in DOMAIN all : all[n] = r
      kept(p) == subs[ps[p].g] # Undefined /\ subs[ps[p].g].obj = ps[p].gobj
  IN [subs |-> [g \in Groups |->
        IF subs[g] = Undefined THEN Undefined
        ELSE [subs[g] EXCEPT
                !.obj = GroupIndex(g),
                !.players = [i \in DOMAIN @ |-> [key |-> @[i].key, ref |-> newRef(@[i].ref)]]]],
      heap |-> [n \in PlayerRefs |-> IF n <= Len(all) THEN h[all[n]] ELSE Free],
      passes |-> [p \in PassIds |->
        IF ps[p].pc = "idle" THEN ps[p]
        ELSE [ps[p] EXCEPT !.player = newRef(@),
                           !.gobj = IF kept(p) THEN GroupIndex(ps[p].g) ELSE 0,
                           !.keys = IF kept(p) THEN @ ELSE <<>>]]]

\* A reference and a group object not in use.
FreshRef(h) == CHOOSE r \in PlayerRefs : h[r] = Free
FreshGroupObj == Cardinality(Groups) + 1

(***************************************************************************)
(* groups.json: JSON.stringify writes the object graph out by value,       *)
(* JSON.parse builds fresh objects.                                        *)
(***************************************************************************)
stringify(subs, h) ==
  [kind |-> "json",
   groups |-> [g \in Groups |->
     IF subs[g] = Undefined THEN Undefined
     ELSE [defined |-> TRUE, groupId |-> subs[g].groupId,
           players |-> [i \in DOMAIN subs[g].players |->
              [key |-> subs[g].players[i].key, data |-> h[subs[g].players[i].ref]]]]]]

\* A variant that numbers the objects of every group from 1.
CountBeforeZero(doc, n) == 0

RECURSIVE CountBefore(_, _)
\* The number of players the document holds in the groups before position n of GroupOrder.
CountBefore(doc, n) ==
  IF n = 1 THEN 0
  ELSE CountBefore(doc, n - 1) +
       (IF doc[GroupOrder[n - 1]] = Undefined THEN 0 ELSE Len(doc[GroupOrder[n - 1]].players))

parse(doc) ==
  LET refOf(g, i) == CountBefore(doc, GroupIndex(g)) + i
      slots == {<<g, i>> \in Groups \X (1..Cardinality(Keys)) :
                  doc[g] # Undefined /\ i \in DOMAIN doc[g].players}
  IN [subs |-> [g \in Groups |->
        IF doc[g] = Undefined THEN Undefined
        ELSE [defined |-> TRUE, groupId |-> doc[g].groupId, obj |-> GroupIndex(g),
              players |-> [i \in DOMAIN doc[g].players |->
                 [key |-> doc[g].players[i].key, ref |-> refOf(g, i)]]]],
      heap |-> [r \in PlayerRefs |->
        IF \E sl \in slots : refOf(sl[1], sl[2]) = r
        THEN LET sl == CHOOSE x \in slots : refOf(x[1], x[2]) = r
             IN doc[sl[1]].players[sl[2]].data
        ELSE Free]]

EmptyRegistry == [subs |-> [g \in Groups |-> Undefined], heap |-> [r \in PlayerRefs |-> Free]]

\* A variant that never reads the file.
loadNothing(file) == EmptyRegistry

\* apply(): the registry starts empty and is replaced by the parsed file when the
\* file exists and parses.
load(file) ==
  IF file.kind = "missing" THEN EmptyRegistry
  ELSE IF file.kind = "corrupt" THEN EmptyRegistry
  ELSE parse(file.groups)

\* saveGroupData(): writeFileSync either replaces the file, or throws before
\* touching it, or throws after truncating it; the exception is caught and logged.
SaveOutcomes == {"ok", "failed", "torn"}
\* A variant that writes nothing.
saveGroupDataSkipped(file, subs, h, outcome) == file
saveGroupData(file, subs, h, outcome) ==
  IF outcome = "ok" THEN stringify(subs, h)
  ELSE IF outcome = "failed" THEN file
  ELSE Corrupt

(***************************************************************************)
(* The state after apply() has run.                                        *)
(***************************************************************************)
\* A variant that stamps every new snapshot with time 0.
SnapshotAtEpoch(name, stats, t) ==
  [playerName |-> name, rankScore |-> stats.rankScore, rankName |-> stats.rankName,
   rankDiv |-> stats.rankDiv, globalRankPercent |-> stats.globalRankPercent,
   selectedLegend |-> stats.selectedLegend, legendRank |-> stats.legendRank,
   lastChecked |-> 0]

Snapshot(name, stats, t) ==
  [playerName |-> name, rankScore |-> stats.rankScore, rankName |-> stats.rankName,
   rankDiv |-> stats.rankDiv, globalRankPercent |-> stats.globalRankPercent,
   selectedLegend |-> stats.selectedLegend, legendRank |-> stats.legendRank,
   lastChecked |-> t]

\* A groups.json left by an earlier run (written at time 0, before "ax" was put
\* on the blacklist): group 1001 tracks "ax" and "Mo", both at score 2 and last
\* seen online.
EarlierFile ==
  [kind |-> "json",
   groups |-> [g \in Groups |->
     IF g = "1001"
     THEN [defined |-> TRUE, groupId |-> "1001",
           players |-> << [key |-> Nameax, data |-> Snapshot(Nameax, OnlineStats(2), 0)],
                          [key |-> Namemo, data |-> Snapshot(NameMo, OnlineStats(2), 0)] >>]
     ELSE Undefined]]

\* The configurations and files the plugin is started with.
Starts ==
  { [blacklist |-> Blacklist, file |-> Missing],
    [blacklist |-> Blacklist, file |-> Corrupt],
    [blacklist |-> Blacklist, file |-> EarlierFile] }

Init ==
  \E st \in Starts :
    /\ blacklist = st.blacklist
    /\ dataFile = st.file
    /\ groupSubscriptions = load(st.file).subs
    /\ heap = load(st.file).heap
    /\ now = 1
    /\ passes = [p \in PassIds |-> IdlePass]
    /\ cmds = [c \in CmdIds |-> IdleCmd]
    /\ ev = Idle
    /\ req = NoCall
    /\ snd = NoCall

(***************************************************************************)
(* The reconciliation pass: the callback of ctx.setInterval.               *)
(***************************************************************************)
Abs(x) == IF x < 0 THEN 0 - x ELSE x

\* A variant of isValidScore that accepts every score that is not negative.
isValidScoreNonNegative(newRankScore) == newRankScore >= 0

isValidScore(newRankScore) == newRankScore >= minValidScore

\* Variants of isDroppingTooMuch: one that counts a drop of exactly the threshold
\* as too much, one that forgets the absolute value.
isDroppingTooMuchFromThreshold(newRankScore, oldRankScore) ==
  LET diff == newRankScore - oldRankScore
  IN diff < 0 /\ Abs(diff) >= maxScoreDropThreshold

isDroppingTooMuchSigned(newRankScore, oldRankScore) ==
  LET diff == newRankScore - oldRankScore
  IN diff < 0 /\ diff > maxScoreDropThreshold

isDroppingTooMuch(newRankScore, oldRankScore) ==
  LET diff == newRankScore - oldRankScore
  IN diff < 0 /\ Abs(diff) > maxScoreDropThreshold

\* A variant of isRankChange that does not compare the two scores.
isRankChangeAlways(newRankScore, oldRankScore) ==
  /\ isValidScore(newRankScore)
  /\ ~isDroppingTooMuch(newRankScore, oldRankScore)

\* The condition under which the callback updates the snapshot and notifies.
isRankChange(newRankScore, oldRankScore) ==
  /\ isValidScore(newRankScore)
  /\ ~isDroppingTooMuch(newRankScore, oldRankScore)
  /\ newRankScore # oldRankScore

diffText(newRankScore, oldRankScore) ==
  LET diff == newRankScore - oldRankScore
  IN IF diff > 0 THEN [direction |-> "up", amount |-> diff]
     ELSE [direction |-> "down", amount |-> Abs(diff)]

\* A variant that reads the old score from the snapshot after the update.
changeMessageReadAfterWrite(groupId, player, playerData, oldRankScore) ==
  [to |-> groupId,
   what |-> "rank change",
   playerName |-> player.playerName,
   oldRankScore |-> player.rankScore,
   newRankScore |-> playerData.rankScore,
   newRankDisplay |-> IF player.rankDiv # 0 THEN <<player.rankName, player.rankDiv>>
                      ELSE <<player.rankName>>,
   change |-> diffText(playerData.rankScore, oldRankScore),
   globalRank |-> IF playerData.globalRankPercent # "" /\ playerData.globalRankPercent # "zh-unknown"
                  THEN playerData.globalRankPercent ELSE "",
   legend |-> IF playerData.isOnline = "zh-online" /\ playerData.selectedLegend # ""
              THEN playerData.selectedLegend ELSE "",
   legendRank |-> IF playerData.isOnline = "zh-online" /\ playerData.selectedLegend # ""
                     /\ playerData.legendRank # "" /\ playerData.legendRank # "zh-unknown"
                  THEN playerData.legendRank ELSE "",
   state |-> IF playerData.isOnline = "zh-online" /\ playerData.currentState # <<>>
             THEN playerData.currentState ELSE <<>>]

\* The text handed to sendGroupMessage for a rank change, by its parts.
changeMessage(groupId, player, playerData, oldRankScore) ==
  [to |-> groupId,
   what |-> "rank change",
   playerName |-> player.playerName,
   oldRankScore |-> oldRankScore,
   newRankScore |-> playerData.rankScore,
   newRankDisplay |-> IF player.rankDiv # 0 THEN <<player.rankName, player.rankDiv>>
                      ELSE <<player.rankName>>,
   change |-> diffText(playerData.rankScore, oldRankScore),
   globalRank |-> IF playerData.globalRankPercent # "" /\ playerData.globalRankPercent # "zh-unknown"
                  THEN playerData.globalRankPercent ELSE "",
   legend |-> IF playerData.isOnline = "zh-online" /\ playerData.selectedLegend # ""
              THEN playerData.selectedLegend ELSE "",
   legendRank |-> IF playerData.isOnline = "zh-online" /\ playerData.selectedLegend # ""
                     /\ playerData.legendRank # "" /\ playerData.legendRank # "zh-unknown"
                  THEN playerData.legendRank ELSE "",
   state |-> IF playerData.isOnline = "zh-online" /\ playerData.currentState # <<>>
             THEN playerData.currentState ELSE <<>>]

\* The group ids for-in enumerates when the callback starts.
definedGroups(subs) == SelectSeq(GroupOrder, LAMBDA g : subs[g] # Undefined)

\* The two for-in loops, run from the current position to the next fetch or to
\* the end of the pass.  gs: the group ids still to visit; g, gobj: the group
\* being visited and the object held for it; ks: its keys still to visit.  A key
\* deleted before it is visited is not visited; a blacklisted player is skipped.
RECURSIVE nextPlayer(_, _, _, _, _, _)
nextPlayer(subs, h, gs, g, gobj, ks) ==
  IF ks # <<>> THEN
    LET k == Head(ks)
        present == subs[g] # Undefined /\ subs[g].obj = gobj /\ hasKey(subs[g].players, k)
    IN IF ~present THEN nextPlayer(subs, h, gs, g, gobj, Tail(ks))
       ELSE LET ref == getRef(subs[g].players, k)
            IN IF isBlacklisted(h[ref].playerName, blacklist)
               THEN nextPlayer(subs, h, gs, g, gobj, Tail(ks))
               ELSE [pc |-> "fetch", groups |-> gs, g |-> g, gobj |-> gobj,
                     keys |-> Tail(ks), k |-> k, player |-> ref]
  ELSE IF gs # <<>> THEN
    LET g2 == Head(gs)
    IN IF subs[g2] = Undefined THEN nextPlayer(subs, h, Tail(gs), g, gobj, <<>>)
       ELSE nextPlayer(subs, h, Tail(gs), g2, subs[g2].obj, keysOf(subs[g2].players))
  ELSE IdlePass

\* The timer fires: the callback runs to its first await.
StartPass(p) ==
  /\ ev = Idle
  /\ passes[p].pc = "idle"
  /\ ev' = Event("tick", "", "none")
  /\ passes' = [passes EXCEPT ![p] =
        nextPlayer(groupSubscriptions, heap, definedGroups(groupSubscriptions), "", 0, <<>>)]
  /\ UNCHANGED <<blacklist, now, groupSubscriptions, heap, dataFile, cmds, req, snd>>

\* A variant that leaves the callback, as an exception outside the try would.
continueByReturning(subs, h, ps, p) == Compact(subs, h, [ps EXCEPT ![p] = IdlePass])

\* The loop goes on from pass p's position: the pass lets go of its player.
continue(subs, h, ps, p) ==
  Compact(subs, h,
          [ps EXCEPT ![p] = nextPlayer(subs, h, ps[p].groups, ps[p].g, ps[p].gobj, ps[p].keys)])

\* getPlayerStats resolves with playerData: classify, and on a rank change update
\* the held player object and start sending the notification.
FetchResolve(p, playerData) ==
  /\ ev = Idle
  /\ passes[p].pc = "fetch"
  /\ LET ps == passes[p]
         player == heap[ps.player]
         newRankScore == playerData.rankScore
         oldRankScore == player.rankScore
     IN IF isRankChange(newRankScore, oldRankScore)
        THEN LET updated == [player EXCEPT
                               !.rankScore = newRankScore,
                               !.rankName = playerData.rankName,
                               !.rankDiv = playerData.rankDiv,
                               !.globalRankPercent = playerData.globalRankPercent,
                               !.selectedLegend = playerData.selectedLegend,
                               !.legendRank = playerData.legendRank,
                               !.lastChecked = now]
             IN /\ ev' = Event("reconcile", "changed", "none")
                /\ heap' = [heap EXCEPT ![ps.player] = updated]
                /\ passes' = [passes EXCEPT ![p] =
                      [ps EXCEPT !.pc = "send"] @@
                      [msg |-> changeMessage(ps.g, updated, playerData, oldRankScore)]]
                /\ UNCHANGED groupSubscriptions
        ELSE LET c == continue(groupSubscriptions, heap, passes, p)
             IN /\ ev' = IF ~isValidScore(newRankScore)
                          THEN Event("reconcile", "invalid", "none") @@
                               [new |-> newRankScore, old |-> oldRankScore]
                          ELSE IF isDroppingTooMuch(newRankScore, oldRankScore)
                          THEN Event("reconcile", "dropping too much", "none") @@
                               [new |-> newRankScore, old |-> oldRankScore]
                          ELSE Event("reconcile", "", "none")
                /\ passes' = c.passes
                /\ heap' = c.heap
                /\ groupSubscriptions' = c.subs
  /\ UNCHANGED <<blacklist, now, dataFile, cmds, req, snd>>

\* getPlayerStats throws: the error is logged and the loop goes on.
FetchReject(p) ==
  /\ ev = Idle
  /\ passes[p].pc = "fetch"
  /\ LET c == continue(groupSubscriptions, heap, passes, p)
     IN /\ ev' = Event("reconcile", "failed", "none")
        /\ passes' = c.passes
        /\ heap' = c.heap
        /\ groupSubscriptions' = c.subs
  /\ UNCHANGED <<blacklist, now, dataFile, cmds, req, snd>>

\* sendGroupMessage returns (delivered or not): the registry is saved and the
\* loop goes on.
SendReturn(p, delivered, outcome) ==
  /\ ev = Idle
  /\ passes[p].pc = "send"
  /\ LET c == continue(groupSubscriptions, heap, passes, p)
     IN /\ ev' = Event("notified", IF delivered THEN "delivered" ELSE "undelivered", outcome)
        /\ dataFile' = saveGroupData(dataFile, groupSubscriptions, heap, outcome)
        /\ passes' = c.passes
        /\ heap' = c.heap
        /\ groupSubscriptions' = c.subs
  /\ UNCHANGED <<blacklist, now, cmds, req, snd>>

(***************************************************************************)
(* The commands.  session.guildId is the group the command is issued in.   *)
(***************************************************************************)
\* const playerKey = playerName.toLowerCase()
playerKey(playerName) == toLowerCase(playerName)

\* A variant of isBelowMinValid that rejects negative scores only.
isBelowZero(rankScore) == rankScore < 0

\* A variant of isBelowMinValid that rejects nothing.
isBelowMinValidNever(rankScore) == FALSE

\* playerData.rankScore < config.minValidScore
isBelowMinValid(rankScore) == rankScore < minValidScore

\* if (Object.keys(groupSubscriptions[groupId].players).length === 0) delete groupSubscriptions[groupId]
deleteIfEmpty(subs, groupId) ==
  IF Len(subs[groupId].players) = 0 THEN [subs EXCEPT ![groupId] = Undefined] ELSE subs

\* The event of an add or a remove: the command's text names the player.
CommandEvent(op, groupId, playerName, res, saved) ==
  Event(op, res, saved) @@ [g |-> groupId, name |-> playerName]

addedMessage(groupId, playerName) ==
  [to |-> groupId, what |-> "added", playerName |-> playerName]

\* apexrankwatch <player>, to its await of getPlayerStats.
Add(c, groupId, playerName) ==
  /\ ev = Idle
  /\ cmds[c].pc = "idle"
  /\ IF isBlacklisted(playerName, blacklist)
     THEN /\ cmds' = cmds
          /\ ev' = CommandEvent("add", groupId, playerName, "blacklisted", "none")
     ELSE /\ cmds' = [cmds EXCEPT ![c] =
                [pc |-> "fetch", op |-> "add", g |-> groupId, name |-> playerName]]
          /\ ev' = CommandEvent("add", groupId, playerName, "fetching", "none")
  /\ UNCHANGED <<blacklist, now, groupSubscriptions, heap, dataFile, passes, req, snd>>

\* apexrankwatch, resumed with playerData: from the score check to the await of
\* sendGroupMessage.
AddFetchResolve(c, playerData, outcome) ==
  /\ ev = Idle
  /\ cmds[c].pc = "fetch"
  /\ cmds[c].op = "add"
  /\ LET groupId == cmds[c].g
         playerName == cmds[c].name
         key == playerKey(playerName)
         withGroup ==
           IF groupSubscriptions[groupId] = Undefined
           THEN [groupSubscriptions EXCEPT ![groupId] =
                   [defined |-> TRUE, groupId |-> groupId,
                    obj |-> FreshGroupObj, players |-> <<>>]]
           ELSE groupSubscriptions
         ref == FreshRef(heap)
         inserted == [withGroup EXCEPT ![groupId].players =
                        Append(@, [key |-> key, ref |-> ref])]
         newHeap == [heap EXCEPT ![ref] = Snapshot(playerName, playerData, now)]
         dup == Compact(withGroup, heap, passes)
         ins == Compact(inserted, newHeap, passes)
     IN IF isBelowMinValid(playerData.rankScore)
        THEN /\ ev' = CommandEvent("add", groupId, playerName, "invalid score", "none")
             /\ cmds' = [cmds EXCEPT ![c] = IdleCmd]
             /\ UNCHANGED <<groupSubscriptions, heap, dataFile, passes>>
        ELSE IF isTruthy(withGroup[groupId].players, key)
        THEN /\ ev' = CommandEvent("add", groupId, playerName, "already tracked", "none")
             /\ groupSubscriptions' = dup.subs
             /\ heap' = dup.heap
             /\ passes' = dup.passes
             /\ cmds' = [cmds EXCEPT ![c] = IdleCmd]
             /\ UNCHANGED dataFile
        ELSE /\ ev' = CommandEvent("add", groupId, playerName, "inserted", outcome)
             /\ groupSubscriptions' = ins.subs
             /\ heap' = ins.heap
             /\ passes' = ins.passes
             /\ dataFile' = saveGroupData(dataFile, inserted, newHeap, outcome)
             /\ cmds' = [cmds EXCEPT ![c] =
                   [cmds[c] EXCEPT !.pc = "send"] @@
                   [msg |-> addedMessage(groupId, playerName)]]
  /\ UNCHANGED <<blacklist, now, req, snd>>

\* apexrankwatch, getPlayerStats threw: the error text is returned.
AddFetchReject(c) ==
  /\ ev = Idle
  /\ cmds[c].pc = "fetch"
  /\ cmds[c].op = "add"
  /\ cmds' = [cmds EXCEPT ![c] = IdleCmd]
  /\ ev' = CommandEvent("add", cmds[c].g, cmds[c].name, "failed", "none")
  /\ UNCHANGED <<blacklist, now, groupSubscriptions, heap, dataFile, passes, req, snd>>

\* apexrankwatch, sendGroupMessage returned: the success text is returned.
AddSendReturn(c, delivered) ==
  /\ ev = Idle
  /\ cmds[c].pc = "send"
  /\ cmds[c].op = "add"
  /\ cmds' = [cmds EXCEPT ![c] = IdleCmd]
  /\ ev' = CommandEvent("add", cmds[c].g, cmds[c].name, IF delivered THEN "added, delivered" ELSE "added, undelivered", "none")
  /\ UNCHANGED <<blacklist, now, groupSubscriptions, heap, dataFile, passes, req, snd>>

\* apexrank <player>, to its await of getPlayerStats.
Query(c, playerName) ==
  /\ ev = Idle
  /\ cmds[c].pc = "idle"
  /\ IF isBlacklisted(playerName, blacklist)
     THEN /\ cmds' = cmds
          /\ ev' = Event("query", "blacklisted", "none")
     ELSE /\ cmds' = [cmds EXCEPT ![c] = [pc |-> "fetch", op |-> "query"]]
          /\ ev' = Event("query", "fetching", "none")
  /\ UNCHANGED <<blacklist, now, groupSubscriptions, heap, dataFile, passes, req, snd>>

\* apexrank, resumed with playerData: the rank text or the low-score text.
QueryFetchResolve(c, playerData) ==
  /\ ev = Idle
  /\ cmds[c].pc = "fetch"
  /\ cmds[c].op = "query"
  /\ cmds' = [cmds EXCEPT ![c] = IdleCmd]
  /\ ev' = Event("query", IF isBelowMinValid(playerData.rankScore) THEN "invalid score" ELSE "rank", "none")
  /\ UNCHANGED <<blacklist, now, groupSubscriptions, heap, dataFile, passes, req, snd>>

\* apexrank, getPlayerStats threw.
QueryFetchReject(c) ==
  /\ ev = Idle
  /\ cmds[c].pc = "fetch"
  /\ cmds[c].op = "query"
  /\ cmds' = [cmds EXCEPT ![c] = IdleCmd]
  /\ ev' = Event("query", "failed", "none")
  /\ UNCHANGED <<blacklist, now, groupSubscriptions, heap, dataFile, passes, req, snd>>

\* apexranklist.
List(groupId) ==
  /\ ev = Idle
  /\ ev' = Event("list", IF groupSubscriptions[groupId] = Undefined \/ Len(groupSubscriptions[groupId].players) = 0 THEN "empty" ELSE "list", "none")
  /\ UNCHANGED <<blacklist, now, groupSubscriptions, heap, dataFile, passes, cmds, req, snd>>

\* apexrankremove <player>.
Remove(groupId, playerName, outcome) ==
  LET key == playerKey(playerName)
  IN
  /\ ev = Idle
  /\ IF groupSubscriptions[groupId] = Undefined
     THEN /\ ev' = CommandEvent("remove", groupId, playerName, "not tracked", "none")
          /\ UNCHANGED <<groupSubscriptions, heap, dataFile, passes>>
     ELSE IF ~isTruthy(groupSubscriptions[groupId].players, key)
     THEN /\ ev' = CommandEvent("remove", groupId, playerName, "not tracked", "none")
          /\ UNCHANGED <<groupSubscriptions, heap, dataFile, passes>>
     ELSE LET deleted == [groupSubscriptions EXCEPT ![groupId].players = deleteKey(@, key)]
              cleaned == deleteIfEmpty(deleted, groupId)
              c == Compact(cleaned, heap, passes)
          IN /\ ev' = CommandEvent("remove", groupId, playerName, "removed", outcome)
             /\ groupSubscriptions' = c.subs
             /\ heap' = c.heap
             /\ passes' = c.passes
             /\ dataFile' = saveGroupData(dataFile, cleaned, heap, outcome)
  /\ UNCHANGED <<blacklist, now, cmds, req, snd>>

(***************************************************************************)
(* The plugin is stopped and started again: apply() runs on the groups.json *)
(* the earlier run left, and the handlers of the earlier run are gone.     *)
(***************************************************************************)
Restart ==
  /\ ev = Idle
  /\ ev' = Event("apply", dataFile.kind, "none")
  /\ groupSubscriptions' = load(dataFile).subs
  /\ heap' = load(dataFile).heap
  /\ passes' = [p \in PassIds |-> IdlePass]
  /\ cmds' = [c \in CmdIds |-> IdleCmd]
  /\ UNCHANGED <<blacklist, now, dataFile, req, snd>>

(***************************************************************************)
(* The specification.                                                      *)
(***************************************************************************)
\* The handler has returned (or is suspended at its await): the event loop takes over.
Return ==
  /\ ev # Idle
  /\ ev' = Idle
  /\ UNCHANGED <<blacklist, now, groupSubscriptions, heap, dataFile, passes, cmds, req, snd>>

\* In this specification every write of groups.json succeeds.
Writes == {"ok"}

Next ==
  \/ Return
  \/ \E p \in OnePass : StartPass(p)
  \/ \E p \in OnePass, playerData \in PlayerStats : FetchResolve(p, playerData)
  \/ \E p \in OnePass : FetchReject(p)
  \/ \E p \in OnePass, delivered \in BOOLEAN, outcome \in Writes :
        SendReturn(p, delivered, outcome)
  \/ \E c \in OneCmd, rq \in AddRequests : Add(c, rq[1], rq[2])
  \/ \E c \in OneCmd, playerData \in PlayerStats, outcome \in Writes :
        AddFetchResolve(c, playerData, outcome)
  \/ \E c \in OneCmd : AddFetchReject(c)
  \/ \E c \in OneCmd, delivered \in BOOLEAN : AddSendReturn(c, delivered)
  \/ \E c \in OneCmd, n \in Names : Query(c, n)
  \/ \E c \in OneCmd, playerData \in PlayerStats : QueryFetchResolve(c, playerData)
  \/ \E c \in OneCmd : QueryFetchReject(c)
  \/ \E g \in Groups : List(g)
  \/ \E rq \in RemoveRequests, outcome \in Writes : Remove(rq[1], rq[2], outcome)
  \/ Restart

Spec == Init /\ [][Next]_vars

\* The specification in which a write of groups.json can fail, before the file
\* is touched or after it was truncated.  The commands and the scores are fewer.
UnreliableAdds == {<<"1002", NameMo>>}
UnreliableRemoves == {<<"1001", NameMo>>, <<"1002", NameMo>>}
UnreliableStats == {OfflineStats(s) : s \in {MaxScore - 1, MaxScore}}

NextUnreliable ==
  \/ Return
  \/ \E p \in OnePass : StartPass(p)
  \/ \E p \in OnePass, playerData \in UnreliableStats : FetchResolve(p, playerData)
  \/ \E p \in OnePass, delivered \in BOOLEAN, outcome \in SaveOutcomes :
        SendReturn(p, delivered, outcome)
  \/ \E c \in OneCmd, rq \in UnreliableAdds : Add(c, rq[1], rq[2])
  \/ \E c \in OneCmd, playerData \in UnreliableStats, outcome \in SaveOutcomes :
        AddFetchResolve(c, playerData, outcome)
  \/ \E c \in OneCmd, delivered \in BOOLEAN : AddSendReturn(c, delivered)
  \/ \E rq \in UnreliableRemoves, outcome \in SaveOutcomes : Remove(rq[1], rq[2], outcome)
  \/ Restart

SpecUnreliable == Init /\ [][NextUnreliable]_vars

(***************************************************************************)
(* The specification with a clock that advances and with scores below zero *)
(* among the observations; one pass and one command at a time.             *)
(***************************************************************************)
MaxNow == 3

\* Date.now() returns a later time than before.
Tick ==
  /\ ev = Idle
  /\ now < MaxNow
  /\ now' = now + 1
  /\ UNCHANGED <<blacklist, groupSubscriptions, heap, dataFile, passes, cmds, ev, req, snd>>

ClockAdds == {<<"1002", NameMo>>}
ClockRemoves == {<<"1001", NameMo>>, <<"1002", NameMo>>}
ClockStats == {OfflineStats(s) : s \in (0 - 1)..MaxScore}

NextClock ==
  \/ Return
  \/ Tick
  \/ \E p \in OnePass : StartPass(p)
  \/ \E p \in OnePass, playerData \in ClockStats : FetchResolve(p, playerData)
  \/ \E p \in OnePass, delivered \in BOOLEAN, outcome \in Writes :
        SendReturn(p, delivered, outcome)
  \/ \E c \in OneCmd, rq \in ClockAdds : Add(c, rq[1], rq[2])
  \/ \E c \in OneCmd, playerData \in ClockStats, outcome \in Writes :
        AddFetchResolve(c, playerData, outcome)
  \/ \E c \in OneCmd, delivered \in BOOLEAN : AddSendReturn(c, delivered)
  \/ \E rq \in ClockRemoves, outcome \in Writes : Remove(rq[1], rq[2], outcome)

SpecClock == Init /\ [][NextClock]_vars

(***************************************************************************)
(* The specification of the notices of the pass: the observations differ   *)
(* in being online and in the activity the API reports.                    *)
(***************************************************************************)
NoticeStats ==
  {playerDataOf(s, isOnline, currentState) :
     s \in Scores, isOnline \in {0, 1}, currentState \in RawStates}

NextNotice ==
  \/ Return
  \/ \E p \in OnePass : StartPass(p)
  \/ \E p \in OnePass, playerData \in NoticeStats : FetchResolve(p, playerData)
  \/ \E p \in OnePass, delivered \in BOOLEAN, outcome \in Writes :
        SendReturn(p, delivered, outcome)
  \/ \E c \in OneCmd, rq \in ClockAdds : Add(c, rq[1], rq[2])
  \/ \E c \in OneCmd, playerData \in NoticeStats, outcome \in Writes :
        AddFetchResolve(c, playerData, outcome)
  \/ \E c \in OneCmd, delivered \in BOOLEAN : AddSendReturn(c, delivered)

SpecNotice == Init /\ [][NextNotice]_vars

(***************************************************************************)
(* The specification of the state text: the API reports the activity with  *)
(* or without the time spent in it, and activities nameMap does not hold.  *)
(***************************************************************************)
RawLoading == <<"L", "o", "a", "d", "i", "n", "g">>
StateSuffixes ==
  { <<>>,
    <<" ", "(", "0", "0", ":", "3", "9", ")">>,
    <<" ", "(", "1", "2", ":", "0", "5", ")">> }
StateTexts == {base \o suffix : base \in RawStates \cup {RawLoading}, suffix \in StateSuffixes}
StateStats == {playerDataOf(s, 1, text) : s \in Scores, text \in StateTexts}

NextState ==
  \/ Return
  \/ \E p \in OnePass : StartPass(p)
  \/ \E p \in OnePass, playerData \in StateStats : FetchResolve(p, playerData)
  \/ \E p \in OnePass, delivered \in BOOLEAN, outcome \in Writes :
        SendReturn(p, delivered, outcome)
  \/ \E c \in OneCmd, rq \in ClockAdds : Add(c, rq[1], rq[2])
  \/ \E c \in OneCmd, playerData \in StateStats, outcome \in Writes :
        AddFetchResolve(c, playerData, outcome)
  \/ \E c \in OneCmd, delivered \in BOOLEAN : AddSendReturn(c, delivered)

SpecState == Init /\ [][NextState]_vars

(***************************************************************************)
(* The specification with two runs of the callback and two invocations of  *)
(* apexrankwatch in flight at once: setInterval starts the callback at     *)
(* every tick, whether or not the run before has returned.                 *)
(***************************************************************************)
OverlapAdds == {<<"1002", NameMo>>, <<"1002", Namemo>>, <<"1002", NameConstructor>>}
OverlapRemoves == {<<"1001", NameMo>>}
OverlapStats == {OfflineStats(s) : s \in {MaxScore - 1, MaxScore}}

NextOverlap ==
  \/ Return
  \/ \E p \in PassIds : StartPass(p)
  \/ \E p \in PassIds, playerData \in OverlapStats : FetchResolve(p, playerData)
  \/ \E p \in PassIds, delivered \in BOOLEAN, outcome \in Writes :
        SendReturn(p, delivered, outcome)
  \/ \E c \in CmdIds, rq \in OverlapAdds : Add(c, rq[1], rq[2])
  \/ \E c \in CmdIds, playerData \in OverlapStats, outcome \in Writes :
        AddFetchResolve(c, playerData, outcome)
  \/ \E c \in CmdIds, delivered \in BOOLEAN : AddSendReturn(c, delivered)
  \/ \E rq \in OverlapRemoves, outcome \in Writes : Remove(rq[1], rq[2], outcome)

SpecOverlap == Init /\ [][NextOverlap]_vars

(***************************************************************************)
(* apiRequestWithRetry, on its own: one action per run between two awaits. *)
(* An error is what axios throws: its code and the status of its response  *)
(* (0 when the error carries no response).                                 *)
(***************************************************************************)
\* config.maxRetries ranges over 0..MaxRetries.
MaxRetries == 3

AxiosError(code, status) == [code |-> code, status |-> status]
Errors ==
  { AxiosError("ECONNRESET", 0), AxiosError("ETIMEDOUT", 0), AxiosError("ECONNABORTED", 0),
    AxiosError("ERR_BAD_RESPONSE", 500), AxiosError("ERR_BAD_REQUEST", 429),
    AxiosError("ERR_BAD_REQUEST", 404), AxiosError("ERR_BAD_REQUEST", 499),
    AxiosError("ENOTFOUND", 0) }

\* response.data of a successful request.
Payloads == {"data"}

\* A variant of isRetriableError that retries every error with a response.
isRetriableErrorAnyStatus(error) ==
  \/ error.code = "ECONNRESET"
  \/ error.code = "ETIMEDOUT"
  \/ error.code = "ECONNABORTED"
  \/ error.status # 0

isRetriableError(error) ==
  \/ error.code = "ECONNRESET"
  \/ error.code = "ETIMEDOUT"
  \/ error.code = "ECONNABORTED"
  \/ (error.status # 0 /\ (error.status >= 500 \/ error.status = 429))

RECURSIVE Pow2(_)
Pow2(n) == IF n = 0 THEN 1 ELSE 2 * Pow2(n - 1)

\* A variant of backoffDelay that starts at one second.
backoffDelayFromOne(attempt) == Pow2(attempt - 1) * 1000

\* const delay = Math.pow(2, attempt) * 1000
backoffDelay(attempt) == Pow2(attempt) * 1000

\* A variant of nextAttempt that does not count.
sameAttempt(attempt) == attempt

\* attempt++
nextAttempt(attempt) == attempt + 1

Resolved(data) == [kind |-> "resolved", data |-> data]
Rejected(error) == [kind |-> "rejected", error |-> error]

\* The top of the for loop with the given value of attempt: the loop is left
\* (throw lastError) or the iteration runs to its first await, the timer of the
\* backoff delay or, on the first attempt, the request itself.  gets, delays and
\* failed record the requests made, the delays waited and the errors caught.
loopFrom(r, attempt, lastError, failed) ==
  IF ~(attempt <= r.maxRetries)
  THEN [r EXCEPT !.pc = "done", !.attempt = attempt, !.lastError = lastError,
                 !.failed = failed, !.result = Rejected(lastError)]
  ELSE IF attempt > 0
  THEN [r EXCEPT !.pc = "delay", !.attempt = attempt, !.lastError = lastError,
                 !.failed = failed, !.delays = Append(@, backoffDelay(attempt))]
  ELSE [r EXCEPT !.pc = "get", !.attempt = attempt, !.lastError = lastError,
                 !.failed = failed, !.gets = @ + 1]

\* apiRequestWithRetry(url, params, maxRetries) is called.
Call(maxRetries) ==
  /\ req.pc \in {"none", "done"}
  /\ req' = loopFrom([pc |-> "none", maxRetries |-> maxRetries, attempt |-> 0,
                      gets |-> 0, delays |-> <<>>, lastError |-> Undefined,
                      failed |-> <<>>, result |-> Undefined],
                     0, Undefined, <<>>)
  /\ UNCHANGED <<blacklist, now, groupSubscriptions, heap, dataFile, passes, cmds, ev, snd>>

\* The timer of the backoff delay fires: the request is made.
TimerFires ==
  /\ req.pc = "delay"
  /\ req' = [req EXCEPT !.pc = "get", !.gets = @ + 1]
  /\ UNCHANGED <<blacklist, now, groupSubscriptions, heap, dataFile, passes, cmds, ev, snd>>

\* axiosInstance.get resolves: response.data is returned.
GetResolve(data) ==
  /\ req.pc = "get"
  /\ req' = [req EXCEPT !.pc = "done", !.result = Resolved(data)]
  /\ UNCHANGED <<blacklist, now, groupSubscriptions, heap, dataFile, passes, cmds, ev, snd>>

\* axiosInstance.get rejects: the catch block retries or rethrows.
GetReject(error) ==
  /\ req.pc = "get"
  /\ req' = IF isRetriableError(error) /\ req.attempt < req.maxRetries
            THEN loopFrom(req, nextAttempt(req.attempt), error, Append(req.failed, error))
            ELSE [req EXCEPT !.pc = "done", !.lastError = error,
                             !.failed = Append(@, error), !.result = Rejected(error)]
  /\ UNCHANGED <<blacklist, now, groupSubscriptions, heap, dataFile, passes, cmds, ev, snd>>

InitFetch ==
  /\ blacklist = Blacklist
  /\ now = 1
  /\ groupSubscriptions = EmptyRegistry.subs
  /\ heap = EmptyRegistry.heap
  /\ dataFile = Missing
  /\ passes = [p \in PassIds |-> IdlePass]
  /\ cmds = [c \in CmdIds |-> IdleCmd]
  /\ ev = Idle
  /\ req = NoCall
  /\ snd = NoCall

NextFetch ==
  \/ \E maxRetries \in 0..MaxRetries : Call(maxRetries)
  \/ TimerFires
  \/ \E data \in Payloads : GetResolve(data)
  \/ \E error \in Errors : GetReject(error)

\* Every timer fires and every request completes.
SpecFetch ==
  /\ InitFetch
  /\ [][NextFetch]_vars
  /\ WF_vars(TimerFires)
  /\ WF_vars((\E data \in Payloads : GetResolve(data)) \/ (\E error \in Errors : GetReject(error)))

(***************************************************************************)
(* sendGroupMessage(groupId, message), step by step between its awaits.    *)
(* snd.attempts records every transport call that has completed.           *)
(***************************************************************************)
MaxBots == 4

\* A bot of ctx.bots: its platform and whether bot.internal.sendGroupMsg is a
\* function.
Bot(platform, internal) == [platform |-> platform, internal |-> internal]
Bots == {Bot(platform, internal) : platform \in {"onebot", "discord"}, internal \in BOOLEAN}
RECURSIVE BotLists(_)
BotLists(n) ==
  IF n = 0 THEN {<<>>}
  ELSE BotLists(n - 1) \cup {Append(l, b) : l \in {x \in BotLists(n - 1) : Len(x) = n - 1}, b \in Bots}

\* ctx.bots.filter(bot => bot.platform === 'onebot')
onebots(ctxBots) == SelectSeq(ctxBots, LAMBDA bot : bot.platform = "onebot")

\* A variant that calls the backup method on every bot.
hasSendGroupMsgAlways(bot) == TRUE

\* bot.internal && typeof bot.internal.sendGroupMsg === 'function'
hasSendGroupMsg(bot) == bot.internal

Attempt(bot, method, ok) == [bot |-> bot, method |-> method, ok |-> ok]

\* for (const bot of bots), from bot number i: the call of bot.sendMessage, or
\* the return of false after the loop.
forBot(s, i) ==
  IF i <= Len(s.bots)
  THEN [s EXCEPT !.pc = "sendMessage", !.bot = i]
  ELSE [s EXCEPT !.pc = "done", !.result = FALSE]

\* sendGroupMessage is called: to the await of the first bot.sendMessage, or to
\* the return of false when there is no OneBot bot.
Send(ctxBots) ==
  /\ snd.pc \in {"none", "done"}
  /\ snd' = LET s == [pc |-> "none", bots |-> onebots(ctxBots), bot |-> 0,
                      attempts |-> <<>>, result |-> Undefined]
            IN IF Len(s.bots) = 0
               THEN [s EXCEPT !.pc = "done", !.result = FALSE]
               ELSE forBot(s, 1)
  /\ UNCHANGED <<blacklist, now, groupSubscriptions, heap, dataFile, passes, cmds, ev, req>>

\* bot.sendMessage resolves: return true.
SendMessageResolve ==
  /\ snd.pc = "sendMessage"
  /\ snd' = [snd EXCEPT !.pc = "done", !.result = TRUE,
                        !.attempts = Append(@, Attempt(snd.bot, "sendMessage", TRUE))]
  /\ UNCHANGED <<blacklist, now, groupSubscriptions, heap, dataFile, passes, cmds, ev, req>>

\* bot.sendMessage rejects: the backup method is called if the bot has it,
\* otherwise the loop goes on.
SendMessageReject ==
  /\ snd.pc = "sendMessage"
  /\ snd' = LET s == [snd EXCEPT !.attempts = Append(@, Attempt(snd.bot, "sendMessage", FALSE))]
            IN IF hasSendGroupMsg(snd.bots[snd.bot])
               THEN [s EXCEPT !.pc = "sendGroupMsg"]
               ELSE forBot(s, snd.bot + 1)
  /\ UNCHANGED <<blacklist, now, groupSubscriptions, heap, dataFile, passes, cmds, ev, req>>

\* bot.internal.sendGroupMsg resolves: return true.
SendGroupMsgResolve ==
  /\ snd.pc = "sendGroupMsg"
  /\ snd' = [snd EXCEPT !.pc = "done", !.result = TRUE,
                        !.attempts = Append(@, Attempt(snd.bot, "sendGroupMsg", TRUE))]
  /\ UNCHANGED <<blacklist, now, groupSubscriptions, heap, dataFile, passes, cmds, ev, req>>

\* bot.internal.sendGroupMsg rejects: the error is logged and the loop goes on.
SendGroupMsgReject ==
  /\ snd.pc = "sendGroupMsg"
  /\ snd' = forBot([snd EXCEPT !.attempts = Append(@, Attempt(snd.bot, "sendGroupMsg", FALSE))],
                   snd.bot + 1)
  /\ UNCHANGED <<blacklist, now, groupSubscriptions, heap, dataFile, passes, cmds, ev, req>>

InitSend == InitFetch

NextSend ==
  \/ \E ctxBots \in BotLists(MaxBots) : Send(ctxBots)
  \/ SendMessageResolve
  \/ SendMessageReject
  \/ SendGroupMsgResolve
  \/ SendGroupMsgReject

SpecSend == InitSend /\ [][NextSend]_vars

(***************************************************************************)
(* The properties of the reconciliation step.                              *)
(***************************************************************************)
\* The registry by value: the groups, the keys of each in order, and every
\* field of every snapshot.
RegistryValue == stringify(groupSubscriptions, heap).groups

tracked(g, k) == groupSubscriptions[g] # Undefined /\ hasKey(groupSubscriptions[g].players, k)
stored(g, k) == heap[getRef(groupSubscriptions[g].players, k)]

\* The snapshot pass p fetched for is the one the registry holds for that player.
HeldIsTracked(p) ==
  /\ tracked(passes[p].g, passes[p].k)
  /\ getRef(groupSubscriptions[passes[p].g].players, passes[p].k) = passes[p].player

\* The step started no call of sendGroupMessage.
NoSendStarted ==
  /\ \A q \in PassIds : passes'[q].pc = "send" => passes[q].pc = "send"
  /\ \A c \in CmdIds : cmds'[c].pc = "send" => cmds[c].pc = "send"

\* The step did not call saveGroupData and groups.json is as it was.
NoWrite == ev'.saved = "none" /\ dataFile' = dataFile

C2_InvalidChangesNothing ==
  [][\A p \in PassIds, playerData \in PlayerStats :
       (ev'.op = "reconcile" /\ FetchResolve(p, playerData) /\ playerData.rankScore < minValidScore)
       => (RegistryValue' = RegistryValue /\ NoSendStarted /\ NoWrite)]_vars

\* A score of 0 was fetched for a player stored at a score above the threshold,
\* and the player is still stored at that score.
C2_Witness ==
  /\ ev.op = "reconcile" /\ ev.res = "invalid"
  /\ ev.new < minValidScore
  /\ ev.old > maxScoreDropThreshold
  /\ \E g \in Groups, k \in Keys : tracked(g, k) /\ stored(g, k).rankScore = ev.old

\* C3: a step whose fetch resolves with a valid score that is more than
\* maxScoreDropThreshold below the stored one leaves the registry as it was,
\* the score and every other field, starts no send and writes nothing.
C3_AnomalousDropChangesNothing ==
  [][\A p \in PassIds, playerData \in PlayerStats :
       LET newScore == playerData.rankScore
           oldScore == heap[passes[p].player].rankScore
       IN (/\ ev'.op = "reconcile"
           /\ FetchResolve(p, playerData)
           /\ newScore >= minValidScore
           /\ newScore < oldScore
           /\ oldScore - newScore > maxScoreDropThreshold)
          => (RegistryValue' = RegistryValue /\ NoSendStarted /\ NoWrite)]_vars

\* A valid score more than the threshold below the stored one was fetched, and
\* the player is still stored at the old score.
C3_Witness ==
  /\ ev.op = "reconcile" /\ ev.res = "dropping too much"
  /\ ev.new >= minValidScore
  /\ ev.old - ev.new > maxScoreDropThreshold
  /\ \E g \in Groups, k \in Keys : tracked(g, k) /\ stored(g, k).rankScore = ev.old

\* C4: a step whose fetch resolves with the stored score leaves every field of
\* every snapshot as it was, lastChecked included, whatever else was fetched,
\* starts no send and writes nothing.
C4_UnchangedChangesNothing ==
  [][\A p \in PassIds, playerData \in PlayerStats :
       (ev'.op = "reconcile" /\ FetchResolve(p, playerData) /\ playerData.rankScore = heap[passes[p].player].rankScore)
       => (RegistryValue' = RegistryValue /\ NoSendStarted /\ NoWrite)]_vars

\* The only player a pass fetches for ("ax" is blacklisted, group 1002 is not
\* there) was fetched offline at the stored score: the snapshot still names the
\* legend seen before and the time of the earlier check.
C4_Witness ==
  /\ ev = Event("reconcile", "", "none")
  /\ groupSubscriptions["1002"] = Undefined
  /\ tracked("1001", Namemo)
  /\ stored("1001", Namemo).selectedLegend = "zh-Wraith"
  /\ stored("1001", Namemo).lastChecked < now

(***************************************************************************)
(* The properties of the blacklist and of the commands.                    *)
(***************************************************************************)
\* The entries of Blacklist, lowercased and trimmed, written out.
BlacklistEntries == { <<"a", "x">>, <<"z">> }
NamedOnBlacklist(name) == toLowerCase(name) \in BlacklistEntries

PassStep(p) ==
  \/ StartPass(p)
  \/ \E playerData \in PlayerStats : FetchResolve(p, playerData)
  \/ FetchReject(p)
  \/ \E delivered \in BOOLEAN, outcome \in SaveOutcomes : SendReturn(p, delivered, outcome)

\* C5: a pass never waits on a fetch or on a send for a player whose name is on
\* the blacklist; no step of a pass changes or removes the snapshot of such a
\* player; and a pass that starts goes on to a player that is not on the
\* blacklist whenever one is tracked.
C5_BlacklistedSkipped ==
  [][/\ \A p \in PassIds :
          passes'[p].pc \in {"fetch", "send"}
          => ~NamedOnBlacklist(heap'[passes'[p].player].playerName)
     /\ (ev'.op \in {"tick", "reconcile", "notified"} /\ \E p \in PassIds : PassStep(p))
        => \A g \in Groups, k \in Keys :
             (tracked(g, k) /\ NamedOnBlacklist(stored(g, k).playerName))
             => /\ groupSubscriptions'[g] # Undefined
                /\ hasKey(groupSubscriptions'[g].players, k)
                /\ heap'[getRef(groupSubscriptions'[g].players, k)] = stored(g, k)
     /\ \A p \in PassIds :
          (ev'.op = "tick" /\ StartPass(p))
          => (passes'[p].pc = "fetch"
              <=> \E g \in Groups, k \in Keys :
                    tracked(g, k) /\ ~NamedOnBlacklist(stored(g, k).playerName))]_vars

\* A pass has started in a group whose first player, "ax", is on the blacklist:
\* it waits on the fetch for the second, and "ax" is still tracked.
C5_Witness ==
  \E p \in PassIds :
    /\ ev = Event("tick", "", "none")
    /\ passes[p].pc = "fetch"
    /\ passes[p].g = "1001" /\ passes[p].k = Namemo
    /\ tracked("1001", Nameax)
    /\ groupSubscriptions["1001"].players[1].key = Nameax
    /\ NamedOnBlacklist(stored("1001", Nameax).playerName)

\* C6: apexrankwatch and apexrank with a name that is on the blacklist, whatever
\* its case, return the blacklist text without starting a fetch: no command is
\* left waiting, the registry and groups.json are as they were and no send starts.
C6_BlacklistedRejectedBeforeFetch ==
  [][/\ \A c \in CmdIds, rq \in AddRequests :
          (ev'.op = "add" /\ Add(c, rq[1], rq[2]) /\ NamedOnBlacklist(rq[2]))
          => /\ ev'.op = "add" /\ ev'.res = "blacklisted"
             /\ cmds' = cmds /\ passes' = passes
             /\ RegistryValue' = RegistryValue /\ NoWrite
     /\ \A c \in CmdIds, n \in Names :
          (ev'.op = "query" /\ Query(c, n) /\ NamedOnBlacklist(n))
          => /\ ev' = Event("query", "blacklisted", "none")
             /\ cmds' = cmds /\ passes' = passes
             /\ RegistryValue' = RegistryValue /\ NoWrite]_vars

\* apexrankwatch AX was rejected against the blacklist entry " AX".
C6_Witness ==
  /\ ev.op = "add" /\ ev.res = "blacklisted"
  /\ ev.name = NameAX
  /\ \A c \in CmdIds : cmds[c].pc = "idle"

\* Every key of a group is the lowercased name of its snapshot, once.
KeysAreLowercasedNames ==
  \A g \in Groups :
    groupSubscriptions[g] # Undefined
    => \A i, j \in DOMAIN groupSubscriptions[g].players :
         /\ groupSubscriptions[g].players[i].key =
              toLowerCase(heap[groupSubscriptions[g].players[i].ref].playerName)
         /\ (groupSubscriptions[g].players[i].key = groupSubscriptions[g].players[j].key
             => i = j)

\* C7: apexrankwatch resumed with a valid score inserts the player under the
\* lowercased name, with the name as typed and the fetched score, when that key
\* is not tracked in the group, and then returns the success text; when the key
\* is tracked it returns the already-tracked text and leaves the registry and
\* groups.json as they were.  After a step of the command no group holds a
\* key twice.
C7_AddTwiceAlreadyTracked ==
  [][/\ \A c \in CmdIds, playerData \in PlayerStats, outcome \in SaveOutcomes :
          (ev'.op = "add" /\ AddFetchResolve(c, playerData, outcome) /\ playerData.rankScore >= minValidScore)
          => LET g == cmds[c].g
                 k == toLowerCase(cmds[c].name)
             IN IF tracked(g, k)
                THEN /\ ev'.res = "already tracked"
                     /\ RegistryValue' = RegistryValue
                     /\ NoWrite /\ NoSendStarted
                ELSE /\ ev'.res = "inserted"
                     /\ groupSubscriptions'[g] # Undefined
                     /\ hasKey(groupSubscriptions'[g].players, k)
                     /\ heap'[getRef(groupSubscriptions'[g].players, k)].playerName = cmds[c].name
                     /\ heap'[getRef(groupSubscriptions'[g].players, k)].rankScore =
                          playerData.rankScore
                     /\ cmds'[c].pc = "send"
     /\ \A c \in CmdIds, delivered \in BOOLEAN :
          (ev'.op = "add" /\ AddSendReturn(c, delivered))
          => /\ ev'.res \in {"added, delivered", "added, undelivered"}
             /\ RegistryValue' = RegistryValue
     /\ ev'.op = "add" => KeysAreLowercasedNames']_vars

\* "mo" was added to a group that tracks the player since an add of "Mo" in this
\* run: the answer is already-tracked and the entry still shows the name "Mo".
C7_Witness ==
  /\ ev.op = "add" /\ ev.res = "already tracked"
  /\ ev.name = Namemo
  /\ tracked(ev.g, Namemo)
  /\ stored(ev.g, Namemo).playerName = NameMo
  /\ stored(ev.g, Namemo).lastChecked = now
  /\ Len(groupSubscriptions[ev.g].players) = 1

\* C8: apexrankwatch resumed with a score below minValidScore returns the
\* low-score text: no player and no group is created, nothing is written and no
\* confirmation is sent.
C8_AddInvalidScoreRejected ==
  [][\A c \in CmdIds, playerData \in PlayerStats, outcome \in SaveOutcomes :
       (ev'.op = "add" /\ AddFetchResolve(c, playerData, outcome) /\ playerData.rankScore < minValidScore)
       => /\ ev'.res = "invalid score"
          /\ groupSubscriptions' = groupSubscriptions
          /\ heap' = heap
          /\ NoWrite /\ NoSendStarted
          /\ cmds'[c] = IdleCmd]_vars

\* The add was answered with the low-score text in a group that has no entry,
\* with no groups.json on disk.
C8_Witness ==
  /\ ev.op = "add" /\ ev.res = "invalid score"
  /\ groupSubscriptions[ev.g] = Undefined
  /\ dataFile = Missing

\* C9: no group of the registry and no group of groups.json has an empty
\* players object.
C9_NoEmptyGroup ==
  /\ \A g \in Groups :
       groupSubscriptions[g] # Undefined => Len(groupSubscriptions[g].players) > 0
  /\ dataFile.kind = "json"
     => \A g \in Groups :
          dataFile.groups[g] # Undefined => Len(dataFile.groups[g].players) > 0

\* The last player of a group was removed: the group is gone from the registry
\* and from groups.json.
C9_Witness ==
  /\ ev.op = "remove" /\ ev.res = "removed"
  /\ groupSubscriptions[ev.g] = Undefined
  /\ dataFile.kind = "json"
  /\ dataFile.groups[ev.g] = Undefined

\* C10: apexrankremove looks the player up by the lowercased name.  When the key
\* is tracked in the group it is deleted, the other players are kept as they
\* were, groups.json is written from the registry and the removed text is
\* returned; when the group is unknown or the key is not tracked, the not-tracked
\* text is returned, the registry is as it was and nothing is written.
C10_RemoveByLowercasedKey ==
  [][\A rq \in RemoveRequests, outcome \in SaveOutcomes :
       (ev'.op = "remove" /\ Remove(rq[1], rq[2], outcome))
       => LET g == rq[1]
              k == toLowerCase(rq[2])
          IN IF tracked(g, k)
             THEN /\ ev'.res = "removed"
                  /\ groupSubscriptions'[g] = Undefined
                     \/ ~hasKey(groupSubscriptions'[g].players, k)
                  /\ \A k2 \in Keys \ {k} :
                       tracked(g, k2)
                       => /\ groupSubscriptions'[g] # Undefined
                          /\ hasKey(groupSubscriptions'[g].players, k2)
                          /\ heap'[getRef(groupSubscriptions'[g].players, k2)] = stored(g, k2)
                  /\ \A g2 \in Groups \ {g} : RegistryValue'[g2] = RegistryValue[g2]
                  /\ ev'.saved = outcome
                  /\ outcome = "ok" => dataFile' = stringify(groupSubscriptions', heap')
             ELSE /\ ev'.res = "not tracked"
                  /\ RegistryValue' = RegistryValue
                  /\ NoWrite]_vars

\* apexrankremove AX removed the player tracked as "ax" and kept the other one,
\* and groups.json holds the registry.
C10_Witness ==
  /\ ev.op = "remove" /\ ev.res = "removed"
  /\ ev.name = NameAX
  /\ ~tracked(ev.g, Nameax)
  /\ tracked(ev.g, Namemo)
  /\ dataFile = stringify(groupSubscriptions, heap)


(***************************************************************************)
(* The properties of apiRequestWithRetry.                                  *)
(***************************************************************************)
\* A connection reset, timeout or abort, a status of 500 or more, or 429.
IsTransient(error) ==
  \/ error.code \in {"ECONNRESET", "ETIMEDOUT", "ECONNABORTED"}
  \/ error.status >= 500
  \/ error.status = 429

\* C11: a call whose first k requests failed with transient errors and whose
\* next request succeeds resolves with the response after exactly k + 1 requests
\* and exactly k delays, the i-th of 2^i seconds; no delay precedes the first
\* request.
C11_SuccessAfterKTransientFailures ==
  [][\A data \in Payloads :
       LET k == Len(req.failed)
       IN (/\ GetResolve(data)
           /\ k <= req.maxRetries
           /\ \A i \in 1..k : IsTransient(req.failed[i]))
          => /\ req'.pc = "done"
             /\ req'.result = Resolved(data)
             /\ req'.gets = k + 1
             /\ Len(req'.delays) = k
             /\ \A i \in 1..k : req'.delays[i] = (2 ^ i) * 1000]_vars

\* Three requests failed, with 429, ETIMEDOUT and 500, the fourth succeeded:
\* the delays were 2, 4 and 8 seconds.
C11_Witness ==
  /\ req.pc = "done"
  /\ req.result.kind = "resolved"
  /\ req.maxRetries = 3
  /\ req.gets = 4
  /\ req.failed = << AxiosError("ERR_BAD_REQUEST", 429), AxiosError("ETIMEDOUT", 0),
                     AxiosError("ERR_BAD_RESPONSE", 500) >>
  /\ req.delays = <<2000, 4000, 8000>>

\* C12: a request that fails with an error that is not transient ends the call
\* at that request, the first or a later one: the call rejects with that error,
\* no further request is made and no delay is started.
C12_FatalEndsTheFetch ==
  [][\A error \in Errors :
       (GetReject(error) /\ ~IsTransient(error))
       => /\ req'.pc = "done"
          /\ req'.result = Rejected(error)
          /\ req'.gets = req.gets
          /\ req'.delays = req.delays]_vars

\* The third request of a call that could make four failed with status 404,
\* after two delays.
C12_Witness ==
  /\ req.pc = "done"
  /\ req.result = Rejected(AxiosError("ERR_BAD_REQUEST", 404))
  /\ req.maxRetries = 3
  /\ req.gets = 3
  /\ Len(req.delays) = 2

\* C13: a call makes at most maxRetries + 1 requests and waits at most
\* maxRetries delays; when the request numbered maxRetries + 1 fails, the call
\* rejects with the error of that request; and a call that has started ends,
\* every timer firing and every request completing.
C13_FetchTerminates ==
  /\ [](req.pc # "none"
        => (req.gets <= req.maxRetries + 1 /\ Len(req.delays) <= req.maxRetries))
  /\ [][\A error \in Errors :
          (GetReject(error) /\ req.gets = req.maxRetries + 1)
          => (req'.pc = "done" /\ req'.result = Rejected(error))]_vars
  /\ (req.pc \in {"get", "delay"}) ~> (req.pc = "done")

\* Four requests of a call with maxRetries = 3 failed with transient errors: the
\* call rejected with the last one after three delays.
C13_Witness ==
  /\ req.pc = "done"
  /\ req.maxRetries = 3
  /\ req.gets = 4
  /\ Len(req.delays) = 3
  /\ Len(req.failed) = 4
  /\ \A i \in 1..4 : IsTransient(req.failed[i])
  /\ req.result = Rejected(AxiosError("ECONNRESET", 0))
  /\ req.failed[4] = AxiosError("ECONNRESET", 0)
  /\ req.failed[3] # req.failed[4]


(***************************************************************************)
(* The properties of failures: of a fetch, of a delivery, of a write.      *)
(***************************************************************************)
SeqRange(s) == {s[i] : i \in DOMAIN s}

\* The players pass p has still to visit after the one it is at: the keys left
\* of the group it is in and the keys of the groups left, those that are tracked
\* and not on the blacklist.
Remaining(p) ==
  LET ps == passes[p]
      inThisGroup == IF groupSubscriptions[ps.g] # Undefined /\ groupSubscriptions[ps.g].obj = ps.gobj
                     THEN {<<ps.g, k>> : k \in SeqRange(ps.keys)}
                     ELSE {}
      inLaterGroups == {<<g, k>> \in SeqRange(ps.groups) \X Keys : TRUE}
  IN {gk \in inThisGroup \cup inLaterGroups :
        /\ tracked(gk[1], gk[2])
        /\ ~NamedOnBlacklist(stored(gk[1], gk[2]).playerName)}

\* C14: a step of the pass whose fetch fails leaves the registry as it was, field
\* by field, starts no send and writes nothing, and the pass goes on: it waits on
\* the fetch of one of the tracked players not on the blacklist it had still to
\* visit, with the others still to visit, and it ends only when there is none.
C14_FetchFailureSkipsOnePlayer ==
  [][\A p \in PassIds :
       (ev'.op = "reconcile" /\ ev'.res = "failed" /\ FetchReject(p))
       => /\ RegistryValue' = RegistryValue
          /\ NoSendStarted
          /\ NoWrite
          /\ IF Remaining(p) = {}
             THEN passes'[p].pc = "idle"
             ELSE /\ passes'[p].pc = "fetch"
                  /\ <<passes'[p].g, passes'[p].k>> \in Remaining(p)
                  /\ Remaining(p)' = Remaining(p) \ {<<passes'[p].g, passes'[p].k>>}]_vars

\* The fetch of "mo" in group 1001 failed and the pass is at the fetch of "mo" in
\* group 1002, the last player; the snapshots of group 1001 are as loaded.
C14_Witness ==
  \E p \in PassIds :
    /\ ev = Event("reconcile", "failed", "none")
    /\ passes[p].pc = "fetch"
    /\ passes[p].g = "1002"
    /\ passes[p].k = Namemo
    /\ Remaining(p) = {}
    /\ tracked("1001", Nameax)
    /\ stored("1001", Nameax) = Snapshot(Nameax, OnlineStats(2), 0)
    /\ tracked("1001", Namemo)
    /\ stored("1001", Namemo) = Snapshot(NameMo, OnlineStats(2), 0)


\* What groups.json holds for the player keyed k in group g.
inStore(g, k) ==
  /\ dataFile.kind = "json"
  /\ dataFile.groups[g] # Undefined
  /\ \E i \in DOMAIN dataFile.groups[g].players : dataFile.groups[g].players[i].key = k
fromStore(g, k) ==
  LET players == dataFile.groups[g].players
  IN players[CHOOSE i \in DOMAIN players : players[i].key = k].data

\* C15: in no state has a pass started or finished the send of a change while the
\* registry holds the new score of that player and groups.json still holds
\* another score for that player.
C15_WrittenBeforeSend ==
  \A p \in PassIds :
    LET g == passes[p].g
        k == passes[p].k
    IN (/\ passes[p].pc = "send"
        /\ HeldIsTracked(p)
        /\ stored(g, k).rankScore = passes[p].msg.newRankScore
        /\ inStore(g, k))
       => fromStore(g, k).rankScore = stored(g, k).rankScore


\* C16: a send that returns without having delivered undoes nothing.  In the
\* pass, the registry is as it was, the updated snapshot included, groups.json
\* is written with it and the pass goes on as after a delivery.  In
\* apexrankwatch, the registry and groups.json are as they were, the new entry
\* included unless apexrankremove took it out during the send, and the command
\* answers with the success text.
C16_DeliveryFailureUndoesNothing ==
  [][/\ \A p \in PassIds :
          (ev'.op = "notified" /\ ev'.res = "undelivered" /\ SendReturn(p, FALSE, "ok"))
          => /\ RegistryValue' = RegistryValue
             /\ dataFile' = [kind |-> "json", groups |-> RegistryValue]
             /\ IF Remaining(p) = {}
                THEN passes'[p].pc = "idle"
                ELSE /\ passes'[p].pc = "fetch"
                     /\ <<passes'[p].g, passes'[p].k>> \in Remaining(p)
                     /\ Remaining(p)' = Remaining(p) \ {<<passes'[p].g, passes'[p].k>>}
     /\ \A c \in CmdIds :
          (ev'.op = "add" /\ ev'.res = "added, undelivered" /\ AddSendReturn(c, FALSE))
          => /\ RegistryValue' = RegistryValue
             /\ dataFile' = dataFile
             /\ ev'.res \notin {"failed", "invalid score", "already tracked", "blacklisted"}]_vars

\* The notice of the change of "mo" in group 1001 to score 3 was not delivered:
\* the registry and groups.json hold score 3 and the pass is at the fetch of the
\* next player; or the notice of the add of "Mo" in group 1002 was not
\* delivered: the registry and groups.json hold the entry.
C16_Witness ==
  \/ /\ ev = Event("notified", "undelivered", "ok")
     /\ tracked("1001", Namemo)
     /\ stored("1001", Namemo).rankScore = 3
     /\ inStore("1001", Namemo)
     /\ fromStore("1001", Namemo).rankScore = 3
     /\ \E p \in PassIds : passes[p].pc = "fetch" /\ passes[p].g = "1002"
  \/ /\ ev.op = "add"
     /\ ev.res = "added, undelivered"
     /\ ev.name = NameMo
     /\ tracked("1002", Namemo)
     /\ inStore("1002", Namemo)
     /\ fromStore("1002", Namemo) = stored("1002", Namemo)


(***************************************************************************)
(* The properties of sendGroupMessage.                                     *)
(***************************************************************************)
\* The attempts a call makes on channel b when every one of them fails.
AllAttemptsOn(channels, b) ==
  IF channels[b].internal
  THEN << Attempt(b, "sendMessage", FALSE), Attempt(b, "sendGroupMsg", FALSE) >>
  ELSE << Attempt(b, "sendMessage", FALSE) >>

RECURSIVE AllAttemptsUpTo(_, _)
AllAttemptsUpTo(channels, b) ==
  IF b = 0 THEN <<>> ELSE AllAttemptsUpTo(channels, b - 1) \o AllAttemptsOn(channels, b)

\* C17: the attempts of a call are, in the order of the channels, the primary
\* method and then, if the channel has one, the secondary method of each
\* channel, all failed, followed by at most one more attempt, the only one that
\* can have succeeded; nothing is attempted after a success; the call returns
\* true when an attempt succeeded and false exactly when there is no channel or
\* every primary and every available secondary attempt failed; it returns a
\* boolean in every case.
C17_SendTriesChannelsInOrder ==
  snd.pc # "none" =>
    LET channels == snd.bots
        n == Len(snd.attempts)
        failed == SubSeq(snd.attempts, 1, n - 1)
        isPrefix(a, b) == Len(a) <= Len(b) /\ SubSeq(b, 1, Len(a)) = a
        every == AllAttemptsUpTo(channels, Len(channels))
    IN /\ \A i \in 1..Len(channels) : channels[i].platform = "onebot"
       /\ \A i \in 1..(n - 1) : ~snd.attempts[i].ok
       /\ isPrefix([i \in 1..n |-> [snd.attempts[i] EXCEPT !.ok = FALSE]], every)
       /\ snd.pc = "done"
          => /\ snd.result \in BOOLEAN
             /\ snd.result = TRUE <=> (n > 0 /\ snd.attempts[n].ok)
             /\ snd.result = FALSE <=> snd.attempts = every
       /\ snd.pc # "done" => (n = 0 \/ ~snd.attempts[n].ok)

\* Two channels, the first with a secondary method: the three attempts failed
\* and the call returned false.
C17_Witness ==
  /\ snd.pc = "done"
  /\ snd.bots = << Bot("onebot", TRUE), Bot("onebot", FALSE) >>
  /\ snd.result = FALSE
  /\ snd.attempts = << Attempt(1, "sendMessage", FALSE), Attempt(1, "sendGroupMsg", FALSE),
                       Attempt(2, "sendMessage", FALSE) >>


(***************************************************************************)
(* The properties of groups.json.                                          *)
(***************************************************************************)
\* C18: a start with groups.json missing, or holding what JSON.parse rejects,
\* gives the empty registry; a start with a groups.json that parses gives the
\* registry the document encodes, group by group, key by key and field by field;
\* in both cases the plugin is up, its timer and its commands waiting.
C18_StartupLoadsTheStore ==
  [][(ev'.op = "apply" /\ Restart)
     => /\ IF dataFile.kind \in {"missing", "corrupt"}
           THEN \A g \in Groups : groupSubscriptions'[g] = Undefined
           ELSE /\ \A g \in Groups :
                     dataFile.groups[g] = Undefined <=> groupSubscriptions'[g] = Undefined
                /\ \A g \in Groups :
                     dataFile.groups[g] # Undefined =>
                       LET doc == dataFile.groups[g].players
                           players == groupSubscriptions'[g].players
                       IN /\ Len(players) = Len(doc)
                          /\ \A i \in DOMAIN doc :
                               /\ players[i].key = doc[i].key
                               /\ heap'[players[i].ref] = doc[i].data
        /\ \A p \in PassIds : passes'[p].pc = "idle"
        /\ \A c \in CmdIds : cmds'[c].pc = "idle"]_vars

\* The plugin started on a groups.json holding two groups, written by the run
\* before, and tracks the players of both.
C18_Witness ==
  /\ ev = Event("apply", "json", "none")
  /\ inStore("1001", Namemo)
  /\ inStore("1002", Namemo)
  /\ tracked("1001", Namemo)
  /\ tracked("1002", Namemo)
  /\ stored("1002", Namemo) = fromStore("1002", Namemo)
  /\ stored("1001", Namemo).rankScore = 3


\* Two registries hold the same mapping: the same groups, in each the same keys
\* in the same order, and under each key a snapshot with the same fields.
SameMapping(a, b) ==
  \A g \in Groups :
    /\ a.subs[g] = Undefined <=> b.subs[g] = Undefined
    /\ a.subs[g] # Undefined =>
         /\ a.subs[g].groupId = b.subs[g].groupId
         /\ keysOf(a.subs[g].players) = keysOf(b.subs[g].players)
         /\ \A i \in DOMAIN a.subs[g].players :
              a.heap[a.subs[g].players[i].ref] = b.heap[b.subs[g].players[i].ref]

C19_WriteFailureKeepsStoreAndMemory ==
  [][/\ ev'.saved \in {"failed", "torn"}
        => /\ dataFile' = dataFile
           /\ ev'.op = "add"
              => /\ ev'.res = "inserted"
                 /\ groupSubscriptions'[ev'.g] # Undefined
                 /\ hasKey(groupSubscriptions'[ev'.g].players, toLowerCase(ev'.name))
                 /\ \E c \in CmdIds : cmds'[c].pc = "send"
           /\ ev'.op = "remove"
              => /\ ev'.res = "removed"
                 /\ \/ groupSubscriptions'[ev'.g] = Undefined
                    \/ ~hasKey(groupSubscriptions'[ev'.g].players, toLowerCase(ev'.name))
           /\ ev'.op = "notified" => RegistryValue' = RegistryValue
     /\ ev'.saved = "ok" => dataFile' = [kind |-> "json", groups |-> RegistryValue']]_vars

\* The write of the removal of "mo" from group 1001 failed after groups.json was
\* truncated: the registry still tracks "ax" and the file no longer parses.
C19_Witness ==
  /\ ev.op = "remove"
  /\ ev.res = "removed"
  /\ ev.saved = "torn"
  /\ tracked("1001", Nameax)
  /\ ~tracked("1001", Namemo)
  /\ dataFile = Corrupt


(***************************************************************************)
(* The invariants of the snapshots.                                        *)
(***************************************************************************)
\* The snapshots the registry holds.
Snapshots ==
  {heap[groupSubscriptions[g].players[i].ref] :
     <<g, i>> \in {gi \in Groups \X (1..Cardinality(Keys)) :
                     /\ groupSubscriptions[gi[1]] # Undefined
                     /\ gi[2] \in DOMAIN groupSubscriptions[gi[1]].players}}

trackedAfter(g, k) == groupSubscriptions'[g] # Undefined /\ hasKey(groupSubscriptions'[g].players, k)
storedAfter(g, k) == heap'[getRef(groupSubscriptions'[g].players, k)]

\* C22: with a clock that never goes back, no step of a pass or of a command
\* lowers the lastChecked of the snapshot stored for a player of a group, and no
\* snapshot carries a lastChecked later than the clock, a snapshot stored by
\* apexrankwatch carrying the time of its insertion: so the lastChecked stored
\* for a player never decreases, a removal followed by a new add included.
C22_LastCheckedNeverDecreases ==
  [][/\ now' >= now
     /\ \A g \in Groups, k \in Keys :
          (tracked(g, k) /\ trackedAfter(g, k))
          => storedAfter(g, k).lastChecked >= stored(g, k).lastChecked
     /\ \A snapshot \in Snapshots' : snapshot.lastChecked <= now'
     /\ (ev'.op = "add" /\ ev'.res = "inserted")
        => storedAfter(ev'.g, toLowerCase(ev'.name)).lastChecked = now']_vars

\* "mo" of group 1001, loaded with lastChecked 0, was updated by the pass at time
\* 3, after "Mo" had been added to group 1002 at time 2.
C22_Witness ==
  /\ now = 3
  /\ tracked("1001", Namemo)
  /\ stored("1001", Namemo).lastChecked = 3
  /\ tracked("1002", Namemo)
  /\ stored("1002", Namemo).lastChecked = 2


(***************************************************************************)
(* The properties of the notice of a rank change.                          *)
(***************************************************************************)
\* C23: the notice of a rank change names the selected legend only when the
\* observation says online, and gives the activity only when the observation
\* says online and its activity text contains "lobby" or "match": an online
\* player in neither gets no activity line.
C23_NoticeShowsActivityOnlyInLobbyOrMatch ==
  [][\A p \in PassIds, s \in Scores, isOnline \in {0, 1}, currentState \in RawStates :
       (/\ ev'.op = "reconcile"
        /\ ev'.res = "changed"
        /\ FetchResolve(p, playerDataOf(s, isOnline, currentState)))
       => /\ passes'[p].msg.legend # "" => isOnline = 1
          /\ passes'[p].msg.state # <<>>
             => (isOnline = 1 /\ currentState \in {RawInMatch, RawInLobby})]_vars

\* The notice of a change observed with the player online and the activity
\* "Online" carries the activity line.
C23_Witness ==
  \E p \in PassIds :
    /\ passes[p].pc = "send"
    /\ passes[p].msg.what = "rank change"
    /\ passes[p].msg.legend = "zh-Wraith"
    /\ passes[p].msg.state = <<"zh-Online">>


(***************************************************************************)
(* The properties of runs in flight at the same time.                      *)
(***************************************************************************)
\* C24: in every state at most one run of the callback is in progress: a tick
\* that fires while a run is at an await starts no second run.
C24_AtMostOnePass == Cardinality({p \in PassIds : passes[p].pc # "idle"}) <= 1

\* A tick fired while the run before was waiting for its fetch: two runs are at
\* the fetch of the same player.
C24_Witness ==
  /\ ev = Event("tick", "", "none")
  /\ \A p \in PassIds : passes[p].pc = "fetch" /\ passes[p].g = "1001" /\ passes[p].k = Namemo


\* The tracked players that are not on the blacklist, by group and key.
Fetchable ==
  {gk \in Groups \X Keys :
     tracked(gk[1], gk[2]) /\ ~NamedOnBlacklist(stored(gk[1], gk[2]).playerName)}

\* Pass p is where it was: at the same await for the same player, with the same
\* keys and groups still to visit.
SamePosition(p) ==
  /\ passes'[p].pc = passes[p].pc
  /\ passes'[p].g = passes[p].g
  /\ passes'[p].k = passes[p].k
  /\ passes'[p].keys = passes[p].keys
  /\ passes'[p].groups = passes[p].groups

\* Pass p goes to the fetch of one of the players it had still to visit, with the
\* others still to visit, or ends when there is none.
Advances(p) ==
  IF Remaining(p) = {}
  THEN passes'[p].pc = "idle"
  ELSE /\ passes'[p].pc = "fetch"
       /\ <<passes'[p].g, passes'[p].k>> \in Remaining(p)
       /\ Remaining(p)' = Remaining(p) \ {<<passes'[p].g, passes'[p].k>>}

\* C25: a pass is at one await at a time, for one player.  The tick takes it to
\* the fetch of one of the tracked players not on the blacklist, with all the
\* others still to visit.  From a fetch it goes on only by the classification of
\* that fetch: to the send for the same player on a change, to the next player
\* otherwise.  From a send it goes on only by the return of the send, with the
\* save, to the next player.  The next player is always one it had still to
\* visit and is then no longer to visit; the pass ends only when none is left.
\* A step of anything else leaves the pass where it is, keeps to visit every
\* player that was to visit and is still tracked, and adds only players that
\* were not tracked before the step.
\* Hence a player tracked and not blacklisted during the whole pass is fetched
\* exactly once for each group that tracks it.
C25_PlayersFetchedOneByOne ==
  [][\A p \in PassIds :
       /\ (ev'.op = "tick" /\ StartPass(p))
          => IF Fetchable = {}
             THEN passes'[p].pc = "idle"
             ELSE /\ passes'[p].pc = "fetch"
                  /\ <<passes'[p].g, passes'[p].k>> \in Fetchable
                  /\ Remaining(p)' = Fetchable \ {<<passes'[p].g, passes'[p].k>>}
       /\ (ev'.op # "apply" /\ passes[p].pc = "fetch")
          => \/ /\ ev'.op = "reconcile" /\ ev'.res = "changed"
                /\ passes'[p].pc = "send"
                /\ passes'[p].g = passes[p].g /\ passes'[p].k = passes[p].k
                /\ Remaining(p)' = Remaining(p)
             \/ /\ ev'.op = "reconcile" /\ ev'.res # "changed"
                /\ Advances(p)
             \/ /\ SamePosition(p)
                /\ {gk \in Remaining(p) : trackedAfter(gk[1], gk[2])} \subseteq Remaining(p)'
                /\ Remaining(p)' \subseteq Remaining(p) \cup {gk \in Groups \X Keys : ~tracked(gk[1], gk[2])}
       /\ (ev'.op # "apply" /\ passes[p].pc = "send")
          => \/ /\ ev'.op = "notified" /\ ev'.saved # "none"
                /\ Advances(p)
             \/ /\ SamePosition(p)
                /\ {gk \in Remaining(p) : trackedAfter(gk[1], gk[2])} \subseteq Remaining(p)'
                /\ Remaining(p)' \subseteq Remaining(p) \cup {gk \in Groups \X Keys : ~tracked(gk[1], gk[2])}]_vars

\* The pass is at the last player, "mo" of group 1002, after
\* the notice for "mo" of group 1001 was sent and saved, and none is left.
C25_Witness ==
  \E p \in PassIds :
    /\ ev.op = "notified"
    /\ passes[p].pc = "fetch"
    /\ passes[p].g = "1002"
    /\ passes[p].k = Namemo
    /\ Remaining(p) = {}
    /\ tracked("1001", Namemo)
    /\ stored("1001", Namemo).rankScore = 3


\* Pass p classified its fetch as a change in this step and goes to the send.
StartsNotice(p) == passes[p].pc = "fetch" /\ passes'[p].pc = "send"

\* C26: the score stored for a player that stays tracked changes only in a step
\* in which a pass classifies the fetch for that player as a change, and the
\* notice that step hands to the send reports as old score the score stored
\* before the step and as new score the score stored after it.  The notices for a
\* player that is never removed therefore form a chain, whatever commands and
\* other passes run in between: each starts at the score the one before ended
\* at, and the first at the score stored by add (or loaded).
C26_NoticesFormChain ==
  [][/\ \A p \in PassIds :
          (ev'.op = "reconcile" /\ ev'.res = "changed" /\ StartsNotice(p) /\ HeldIsTracked(p))
          => LET g == passes[p].g
                 k == passes[p].k
             IN /\ trackedAfter(g, k)
                /\ passes'[p].msg.to = g
                /\ passes'[p].msg.playerName = stored(g, k).playerName
                /\ passes'[p].msg.oldRankScore = stored(g, k).rankScore
                /\ passes'[p].msg.newRankScore = storedAfter(g, k).rankScore
                /\ passes'[p].msg.oldRankScore # passes'[p].msg.newRankScore
     /\ \A g \in Groups, k \in Keys :
          (ev'.op \notin {"", "tick"} /\ tracked(g, k) /\ trackedAfter(g, k)
             /\ storedAfter(g, k).rankScore # stored(g, k).rankScore)
          => \E p \in PassIds :
               /\ ev'.op = "reconcile" /\ ev'.res = "changed"
               /\ StartsNotice(p) /\ HeldIsTracked(p)
               /\ passes[p].g = g /\ passes[p].k = k]_vars

\* Two runs are both at the send for "mo" of group 1001: the first with the
\* notice of 2 to 3, the second with the notice of 3 to 2, and 2 is stored.
C26_Witness ==
  /\ passes["p1"].pc = "send" /\ passes["p2"].pc = "send"
  /\ HeldIsTracked("p1") /\ HeldIsTracked("p2")
  /\ passes["p1"].g = "1001" /\ passes["p1"].k = Namemo
  /\ passes["p2"].g = "1001" /\ passes["p2"].k = Namemo
  /\ passes["p1"].msg.oldRankScore = 2 /\ passes["p1"].msg.newRankScore = 3
  /\ passes["p2"].msg.oldRankScore = 3 /\ passes["p2"].msg.newRankScore = 2
  /\ stored("1001", Namemo).rankScore = 2


\* C27: a pass hands a notice about a player to the send for a group only when
\* the player is tracked in that group at that moment.
C27_NoticeOnlyForTrackedPlayer ==
  [][\A p \in PassIds :
       (ev'.op = "reconcile" /\ ev'.res = "changed" /\ StartsNotice(p))
       => tracked(passes[p].g, passes[p].k)]_vars

\* "mo" was removed from group 1001 while the pass waited for its fetch; the
\* fetch resolved with another score and the pass is sending the notice.
C27_Witness ==
  \E p \in PassIds :
    /\ ev = Event("reconcile", "changed", "none")
    /\ passes[p].pc = "send"
    /\ passes[p].g = "1001"
    /\ passes[p].k = Namemo
    /\ passes[p].msg.to = "1001"
    /\ passes[p].msg.playerName = NameMo
    /\ ~tracked("1001", Namemo)


\* C28: after a remove that answered "removed" the player is not in the group.
\* A player that is not in a group comes into it only by an add for that group
\* and that name which inserts; no step of a pass, whatever player it holds,
\* brings one back.  Every write that succeeds stores no player that the
\* registry does not hold at that moment.
C28_RemovalIsNotUndone ==
  [][/\ (ev'.op = "remove" /\ ev'.res = "removed")
        => ~trackedAfter(ev'.g, toLowerCase(ev'.name))
     /\ \A g \in Groups, k \in Keys :
          /\ (ev'.op # "" /\ ~tracked(g, k) /\ trackedAfter(g, k))
             => /\ ev'.op = "add" /\ ev'.res = "inserted"
                /\ ev'.g = g /\ toLowerCase(ev'.name) = k
          /\ (ev'.saved = "ok" /\ ~trackedAfter(g, k)) => ~inStore(g, k)']_vars

\* "mo" was removed from both groups while the pass was at 1001/"mo"; the pass
\* then sent its notice and saved, and "mo" is in no group, in memory or on disk.
C28_Witness ==
  /\ ev.op = "notified" /\ ev.saved = "ok"
  /\ \A p \in PassIds : passes[p].pc = "idle"
  /\ ~tracked("1001", Namemo) /\ ~tracked("1002", Namemo)
  /\ ~inStore("1001", Namemo) /\ ~inStore("1002", Namemo)
  /\ dataFile.kind = "json"


\* Command c2 is an add, not yet returned, for the group and (letter case apart)
\* the name of the add c.
SameTarget(c, c2) ==
  /\ c2 # c
  /\ cmds[c].pc # "idle" /\ cmds[c].op = "add"
  /\ cmds[c2].pc # "idle" /\ cmds[c2].op = "add"
  /\ cmds[c2].g = cmds[c].g
  /\ toLowerCase(cmds[c2].name) = toLowerCase(cmds[c].name)

\* The entries of group g under key k, after the step.
entriesAfter(g, k) ==
  IF groupSubscriptions'[g] = Undefined THEN {}
  ELSE {i \in DOMAIN groupSubscriptions'[g].players : groupSubscriptions'[g].players[i].key = k}

\* C29: when an add resumes from its fetch with a valid score while another add
\* for the same group and the same name (letter case apart) is in flight, it
\* inserts if and only if the player was not tracked, it answers "already
\* tracked" when the other has inserted, and the group then has exactly one
\* entry for the player.
C29_ConcurrentAddsInsertOnce ==
  [][\A c \in CmdIds, c2 \in CmdIds :
       (/\ ev'.op = "add" /\ ev'.res \in {"inserted", "already tracked"}
        /\ cmds[c].pc = "fetch" /\ cmds'[c].pc # "fetch"
        /\ SameTarget(c, c2))
       => LET g == cmds[c].g
              k == toLowerCase(cmds[c].name)
          IN /\ (ev'.res = "inserted") <=> ~tracked(g, k)
             /\ cmds[c2].pc = "send" => ev'.res = "already tracked"
             /\ Cardinality(entriesAfter(g, k)) = 1]_vars

\* Two adds of "constructor" in group 1002 waited for their fetches at the same
\* time; both fetched a valid score and both answered "already tracked": the
\* group exists and is empty.
C29_Witness ==
  /\ ev = CommandEvent("add", "1002", NameConstructor, "already tracked", "none")
  /\ cmds["c1"].pc = "idle"
  /\ cmds["c2"].pc = "fetch" /\ cmds["c2"].op = "add"
  /\ cmds["c2"].g = "1002" /\ cmds["c2"].name = NameConstructor
  /\ groupSubscriptions["1002"] # Undefined
  /\ groupSubscriptions["1002"].players = <<>>


\* No command and no pass is in flight, and no handler is running.
AtRest ==
  /\ ev = Idle
  /\ \A p \in PassIds : passes[p].pc = "idle"
  /\ \A c \in CmdIds : cmds[c].pc = "idle"

\* C30: when no command and no pass is in flight (every write succeeds in this
\* specification), what groups.json holds, as apply() reads it, is the mapping
\* the registry holds.
C30_StoreEqualsRegistryAtRest ==
  AtRest => SameMapping(load(dataFile), [subs |-> groupSubscriptions, heap |-> heap])

\* "constructor" was added in group 1002 and the command has returned: the
\* registry holds group 1002, with no player, and groups.json holds no group 1002.
C30_Witness ==
  /\ AtRest
  /\ groupSubscriptions["1002"] # Undefined
  /\ groupSubscriptions["1002"].players = <<>>
  /\ dataFile.kind = "json"
  /\ dataFile.groups["1002"] = Undefined
  /\ dataFile.groups["1001"] # Undefined


(***************************************************************************)
(* What a step leaves alone.                                               *)
(***************************************************************************)
\* The player under key k of group g is, after the step, as before: tracked or
\* not, and with the same snapshot.
SameEntry(g, k) ==
  /\ tracked(g, k) <=> trackedAfter(g, k)
  /\ tracked(g, k) => storedAfter(g, k) = stored(g, k)

\* C31: a step of add or of remove issued in group G for a name leaves every
\* other group as it was, by value, and every other player of G tracked as
\* before with the same snapshot.  A step of a pass adds and removes no group
\* and no player, and changes no snapshot but, in the step that classifies a
\* fetch as a change, that of the player the pass fetched for.  A step of query
\* or of list leaves the registry and groups.json as they were.
C31_StepsChangeOnlyTheirTarget ==
  [][/\ ev'.op \in {"add", "remove"}
        => /\ \A g \in Groups \ {ev'.g} : RegistryValue'[g] = RegistryValue[g]
           /\ \A k \in Keys \ {toLowerCase(ev'.name)} : SameEntry(ev'.g, k)
     /\ ev'.op \in {"tick", "reconcile", "notified"}
        => /\ \A g \in Groups :
                groupSubscriptions'[g] = Undefined <=> groupSubscriptions[g] = Undefined
           /\ \A g \in Groups, k \in Keys :
                /\ tracked(g, k) <=> trackedAfter(g, k)
                /\ (tracked(g, k) /\ storedAfter(g, k) # stored(g, k))
                   => /\ ev'.op = "reconcile" /\ ev'.res = "changed"
                      /\ \E p \in PassIds :
                           /\ passes[p].pc = "fetch" /\ passes'[p].pc = "send"
                           /\ passes[p].g = g /\ passes[p].k = k
                           /\ \A g2 \in Groups, k2 \in Keys :
                                <<g2, k2>> # <<g, k>> => SameEntry(g2, k2)
     /\ ev'.op \in {"query", "list"}
        => /\ RegistryValue' = RegistryValue
           /\ dataFile' = dataFile]_vars

\* "Mo" was removed from group 1001 after "mo" was added to group 1002: "ax" of
\* group 1001 and "mo" of group 1002 are as they were.
C31_Witness ==
  /\ ev = CommandEvent("remove", "1001", NameMo, "removed", "ok")
  /\ ~tracked("1001", Namemo)
  /\ tracked("1001", Nameax)
  /\ stored("1001", Nameax) = Snapshot(Nameax, OnlineStats(2), 0)
  /\ tracked("1002", Namemo)
  /\ stored("1002", Namemo).playerName = NameMo


\* C32: in every state every snapshot of the registry, and every snapshot that
\* groups.json holds, has a rankScore of at least minValidScore: the runs start
\* from an empty registry or from one an earlier run stored, and neither add nor
\* an update of the pass stores a lower score.
C32_StoredScoreAtLeastMinValid ==
  /\ \A snapshot \in Snapshots : snapshot.rankScore >= minValidScore
  /\ \A g \in Groups, k \in Keys :
       inStore(g, k) => fromStore(g, k).rankScore >= minValidScore

\* The plugin started with no group 1001; "mo" was added to group 1002 and a
\* fetch of the pass for it resolved with score 0: the step classified the score
\* as invalid and the snapshot keeps the score the add stored.
C32_Witness ==
  /\ ev.op = "reconcile" /\ ev.res = "invalid"
  /\ ev.new = 0 /\ ev.old >= minValidScore
  /\ groupSubscriptions["1001"] = Undefined
  /\ tracked("1002", Namemo)
  /\ stored("1002", Namemo).rankScore = ev.old
  /\ Cardinality(Snapshots) = 1


(***************************************************************************)
(* The state text.                                                         *)
(***************************************************************************)
\* The text ends with a space and a time in parentheses: " (mm:ss)".
HasDuration(text) ==
  LET n == Len(text)
  IN /\ n >= 8
     /\ text[n - 7] = " " /\ text[n - 6] = "(" /\ text[n] = ")" /\ text[n - 3] = ":"
     /\ {text[n - 5], text[n - 4], text[n - 2], text[n - 1]} \subseteq DigitChars

\* C33: the state a notice shows for an observation whose state text ends with
\* a time in parentheses is the translation of the text before the time,
\* followed by the time as it was reported; a text without a time is translated
\* as a whole, and a text nameMap does not hold is shown as it is.
C33_TimeIsKeptBehindTranslation ==
  [][\A p \in PassIds, s \in Scores, text \in StateTexts :
       (/\ ev'.op = "reconcile" /\ ev'.res = "changed"
        /\ FetchResolve(p, playerDataOf(s, 1, text)))
       => LET n == Len(text)
          IN /\ HasDuration(text)
                => passes'[p].msg.state
                     = translate(SubSeq(text, 1, n - 8)) \o SubSeq(text, n - 7, n)
             /\ ~HasDuration(text) => passes'[p].msg.state = translate(text)
             /\ text = RawLoading => passes'[p].msg.state = RawLoading]_vars

\* The API reported "in Match (00:39)" for "mo" of group 1001 and the notice
\* shows the text as reported, untranslated.
C33_Witness ==
  \E p \in PassIds :
    /\ ev = Event("reconcile", "changed", "none")
    /\ passes[p].pc = "send"
    /\ passes[p].g = "1001" /\ passes[p].k = Namemo
    /\ passes[p].msg.state = RawInMatch \o <<" ", "(", "0", "0", ":", "3", "9", ")">>


=============================================================================
